---- MODULE Spec2Model ----
(***************************************************************************)
(* A model of the caching and enrichment pipeline of sr_exhibit:           *)
(*   - cache.CacheKey            (the Ranking Cache key string)            *)
(*   - cache.PlayerCache         (the Entity Cache, players.json)          *)
(*   - cache.LeaderboardCache    (the Ranking Cache, one CSV per key)      *)
(*   - the cache merge of run()  (main.go)                                 *)
(* Strings are sequences of byte codes, so that sorting, joining and       *)
(* splitting are computed as the code computes them.                       *)
(***************************************************************************)
EXTENDS Integers, Sequences, FiniteSets, TLC

VARIABLES
    key,        \* CacheKey under test: [GameID, CategoryID, Variables]
    results,    \* results[c]: the string returned by the c-th String() call
    playerCache,\* run(): playerCache != nil (NewPlayerCache returned no error)
    players,    \* PlayerCache.players: id -> PlayerCacheItem or NoItem
    dirty,      \* PlayerCache.dirty
    file,       \* content of <dir>/players.json, or NoFile
    now,        \* the wall clock, in seconds
    ret,        \* the last operation and what it returned
    pc,         \* position of run() in the cache merge
    playerIDs,  \* run(): the user ids referenced by cachedData.Runs
    leaderboardPlayers, \* run(): cachedData.Players as loaded (the overlay)
    todo,       \* ids the range over playerIDs has not visited yet
    cachedPlayers,      \* run(): cachedData.Players being rebuilt (the merged map)
    requested,  \* ids for which client.GetUser was called
    warned,     \* ids for which "Warning: Failed to fetch player" was printed
    snapshot,   \* the *CachedLeaderboard handed to LeaderboardCache.Save
    csvFile,    \* the records of <dir>/<key>.csv, or NoCsv
    loaded,     \* the *CachedLeaderboard returned by LeaderboardCache.Load
    decoded,    \* per loaded run, what formatTimeISO parsed from Times.Primary
    savePc,     \* position inside a Save of one of the two caches
    tmpFile,    \* content of <dir>/players.json.tmp, or NoFile
    before,     \* the two target files as they were when the Save began
    pending,    \* records LeaderboardCache.Save has not written to the file yet
    fpc,        \* position of the goroutine that runs GetLeaderboard
    response,   \* the decoded leaderboard response: result.Data
    idsToFetch, \* GetLeaderboard: the ids that missed the cache
    worker,     \* per id of idsToFetch, the position of its goroutine
    fetched,    \* per id, what GetUser returned to its goroutine
    resultsCh,  \* the buffered channel results
    collected,  \* the i of the loop that receives from results
    semaphore,  \* number of tokens in the channel semaphore
    cancelled,  \* ctx is cancelled
    fetchCount, \* per id, how many times GetLeaderboard called GetUser
    httpLog,    \* per endpoint, what HTTPClient.Do returned to each request
    rwReaders,  \* PlayerCache.mu: number of read locks held
    rwWriter,   \* PlayerCache.mu: the write lock is held
    thread,     \* per goroutine calling Get or Set: call, position, locals
    spc,        \* position of SearchGameByName
    searchName, \* SearchGameByName: the parameter name
    catalog,    \* the games the remote service lists under /games
    tiers,      \* per request tier of SearchGameByName so far, its outcome
    allGames,   \* GetAllGames: the games appended so far; what it returns
    offset,     \* GetAllGames: offset of the next page
    searchRet,  \* what SearchGameByName returned
    lbDir,      \* the cache directory: file name -> records, or NoCsv
    lbHist,     \* per file name, the snapshot of the last successful Save
                \* since the file was last removed, or NoResult
    lbRet,      \* the last LeaderboardCache call and what it returned
    lbMade,     \* whether the cache directory exists
    mode,       \* run(): useCache, refreshCache, and whether stdin is a terminal
    rpc,        \* position of run()
    runErr,     \* the error run() returned, "" for none
    source,     \* where run() took the leaderboard from: "remote" or "cache"
    leaderboard,\* run(): the *models.LeaderboardData handed to the generator
    stderr,     \* the warnings printed to os.Stderr
    failures,   \* the cache and enrichment operations that have failed
    remote,     \* the endpoints requested from the remote service
    output      \* the page written by gen.Generate: its runs, or NoFile

keyVars == <<key, results>>
cacheVars == <<playerCache, players, dirty, file, now, ret>>
mergeVars == <<pc, playerIDs, leaderboardPlayers, todo, cachedPlayers, requested, warned>>
csvVars == <<snapshot, csvFile, loaded, decoded>>
saveVars == <<savePc, tmpFile, before, pending>>
fanVars == <<fpc, response, idsToFetch, worker, fetched, resultsCh, collected,
             semaphore, cancelled, fetchCount, httpLog>>
lockVars == <<rwReaders, rwWriter, thread>>
searchVars == <<spc, searchName, catalog, tiers, allGames, offset, searchRet>>
dirVars == <<lbDir, lbHist, lbRet, lbMade>>
runVars == <<mode, rpc, runErr, source, leaderboard, stderr, failures, remote, output>>
extVars == <<searchVars, dirVars, runVars>>
stepVars == <<saveVars, fanVars, lockVars, extVars>>

vars == <<key, results, playerCache, players, dirty, file, now, ret,
          pc, playerIDs, leaderboardPlayers, todo, cachedPlayers, requested, warned,
          snapshot, csvFile, loaded, decoded,
          savePc, tmpFile, before, pending,
          fpc, response, idsToFetch, worker, fetched, resultsCh, collected,
          semaphore, cancelled, fetchCount, httpLog, rwReaders, rwWriter, thread,
          spc, searchName, catalog, tiers, allGames, offset, searchRet,
          lbDir, lbHist, lbRet, lbMade,
          mode, rpc, runErr, source, leaderboard, stderr, failures, remote, output>>

Null == <<-1>>               \* no string, no sequence of times yet
NoResult == [none |-> "result"]  \* no *CachedLeaderboard yet

(***************************************************************************)
(* Strings                                                                 *)
(***************************************************************************)
ChEq == 61          \* '='
ChUnderscore == 95  \* '_'
ChA == 97           \* 'a'
ChB == 98           \* 'b'
Ch0 == 48           \* '0'

\* "9dq73k2q" and "mln1yv32", the filter pair of the spec's scenario
Str9dq73k2q == <<57, 100, 113, 55, 51, 107, 50, 113>>
StrMln1yv32 == <<109, 108, 110, 49, 121, 118, 51, 50>>

\* Go's string comparison a < b: bytewise lexicographic
RECURSIVE StrLt(_, _)
StrLt(a, b) ==
    IF Len(b) = 0 THEN FALSE
    ELSE IF Len(a) = 0 THEN TRUE
    ELSE IF a[1] < b[1] THEN TRUE
    ELSE IF a[1] > b[1] THEN FALSE
    ELSE StrLt(Tail(a), Tail(b))

StrGt(a, b) == StrLt(b, a)

\* strings.Join(parts, sep)
RECURSIVE Join(_, _)
Join(parts, sep) ==
    IF Len(parts) = 0 THEN <<>>
    ELSE IF Len(parts) = 1 THEN parts[1]
    ELSE parts[1] \o sep \o Join(Tail(parts), sep)

\* s has t as a prefix / contains t
HasPrefix(s, t) == Len(t) <= Len(s) /\ SubSeq(s, 1, Len(t)) = t
Contains(s, t) ==
    \E i \in 1..(Len(s) - Len(t) + 1) : SubSeq(s, i, i + Len(t) - 1) = t

\* all orders in which a Go map iteration can visit the set S
Perms(S) ==
    { p \in [1..Cardinality(S) -> S] : \A i, j \in 1..Cardinality(S) : i # j => p[i] # p[j] }

(***************************************************************************)
(* cache.CacheKey                                                          *)
(***************************************************************************)
MaxVars == 2        \* largest number of filter pairs in a key
NumCalls == 2       \* String() calls compared per key

GameIDs == { <<ChA>>, <<ChA, ChB>>, <<ChA, ChUnderscore, ChB>> }
CategoryIDs == { <<ChB>>, <<Ch0, ChA>>, <<ChB, ChUnderscore, ChB>> }
VarKeys == { Str9dq73k2q, <<ChA>>, <<Ch0>>, <<ChA, ChB>> }
VarValues == { StrMln1yv32, <<ChB>>, <<ChB, ChUnderscore, ChA, ChEq, ChB>> }

VarMaps ==
    UNION { [D -> VarValues] : D \in { D \in SUBSET VarKeys : Cardinality(D) <= MaxVars } }

CacheKeys == [GameID : GameIDs, CategoryID : CategoryIDs, Variables : VarMaps]

Swap(v, i, j) == [v EXCEPT ![i] = v[j], ![j] = v[i]]

\* the sort left out: the keys stay in map iteration order
BubbleSortNone(v, i, j) == v

\* the "simple bubble sort" of String(): for i { for j := i+1 { if v[i] > v[j] swap } }
RECURSIVE BubbleSort(_, _, _)
BubbleSort(v, i, j) ==
    IF i > Len(v) THEN v
    ELSE IF j > Len(v) THEN BubbleSort(v, i + 1, i + 2)
    ELSE BubbleSort(IF StrGt(v[i], v[j]) THEN Swap(v, i, j) ELSE v, i, j + 1)

\* the pair written as key:value
KeyPartColon(k, v) == k \o <<58>> \o v

\* key+"="+k.Variables[key]
KeyPart(k, v) == k \o <<ChEq>> \o v

\* (k *CacheKey) String(), where order is the order in which the range over
\* k.Variables visited the keys
String(k, order) ==
    LET sorted == BubbleSort(order, 1, 2)
        parts == <<k.GameID, k.CategoryID>>
                 \o [i \in 1..Len(sorted) |-> KeyPart(sorted[i], k.Variables[sorted[i]])]
    IN Join(parts, <<ChUnderscore>>)

\* (k *CacheKey) FileName()
FileName(k, order) == String(k, order) \o <<46, 99, 115, 118>>

(***************************************************************************)
(* cache.PlayerCache (the Entity Cache)                                    *)
(***************************************************************************)
MaxTicks == 2       \* seconds that pass while the model runs
TTL == 1            \* PlayerCache.ttl, in seconds
StartTime == TTL + 1 \* the clock when the program first starts
MaxTime == StartTime + MaxTicks

Ids == {"p1", "p2"} \* the player ids

NoItem == [none |-> "item"]
NoFile == [none |-> "file"]
NoCsv == (0 :> "file")    \* no <key>.csv: no list of records
NoPage == (0 :> "page")    \* no page rendered: no list of runs
NoCountry == "nil"  \* PlayerData.Location == nil or .Country == nil
NoStyle == "nil"    \* PlayerData.NameStyle == nil

\* models.PlayerData: display name, name style, country code
PlayerData == [Name : {"", "n1", "n2"}, NameStyle : {NoStyle, "solid"}, Country : {NoCountry, "A", "B"}]

\* records the persisted file holds when the program starts
StoredData == { [Name |-> "n1", NameStyle |-> "solid", Country |-> "A"],
                [Name |-> "n2", NameStyle |-> NoStyle, Country |-> NoCountry] }

\* records the remote service answers GetUser with
RemoteData == { [Name |-> "n2", NameStyle |-> "solid", Country |-> "A"] }

PlayerCacheItem(data, t) == [Data |-> data, CachedAt |-> t]

EmptyPlayers == [id \in Ids |-> NoItem]

\* the mutant: an item is expired as soon as its age reaches the ttl
ExpiredAtTTL(item, t) == t - item.CachedAt >= TTL

\* time.Since(item.CachedAt) > c.ttl, now.Sub(item.CachedAt) > c.ttl
Expired(item, t) == t - item.CachedAt > TTL

\* the (data, found) of Get, from the map as it is
Found(id) == players[id] # NoItem /\ ~Expired(players[id], now)

\* a players.json that os.ReadFile cannot read, and one that json.Unmarshal
\* cannot parse
Unreadable == [bad |-> "read"]
Malformed == [bad |-> "json"]

\* PlayerCache.Load returns an error
LoadFails(f) == f \in {Unreadable, Malformed}

\* PlayerCache.Load, as called by NewPlayerCache: a missing file leaves the
\* map empty, and after an error NewPlayerCache makes the map anew
Load(f) == IF f = NoFile \/ LoadFails(f) THEN EmptyPlayers ELSE f

\* NewPlayerCache returns the error of Load
NewPlayerCacheStrict(f) == ~LoadFails(f)

\* NewPlayerCache returns a cache: "Load failure is not fatal"
NewPlayerCache(f) == TRUE

\* NewPlayerCache: a new cache object over the same directory
Open ==
    /\ pc = "idle"
    /\ playerCache' = NewPlayerCache(file)
    /\ players' = Load(file)
    /\ ret' = [op |-> "Open"]
    /\ dirty' = FALSE
    /\ UNCHANGED <<file, now>>
    /\ UNCHANGED mergeVars
    /\ UNCHANGED <<keyVars, csvVars, stepVars>>

\* the mutant: Get reclaims the expired item it finds
GetEvict(id) ==
    /\ pc = "idle" /\ playerCache
    /\ ret' = [op |-> "Get", id |-> id, found |-> Found(id),
               data |-> IF Found(id) THEN players[id].Data ELSE NoItem]
    /\ players' = IF players[id] # NoItem /\ ~Found(id)
                  THEN [players EXCEPT ![id] = NoItem] ELSE players
    /\ UNCHANGED <<playerCache, dirty, file, now>>
    /\ UNCHANGED mergeVars
    /\ UNCHANGED <<keyVars, csvVars, stepVars>>

\* PlayerCache.Get
Get(id) ==
    /\ pc = "idle" /\ playerCache
    /\ ret' = [op |-> "Get", id |-> id, found |-> Found(id),
               data |-> IF Found(id) THEN players[id].Data ELSE NoItem]
    /\ UNCHANGED <<playerCache, players, dirty, file, now>>
    /\ UNCHANGED mergeVars
    /\ UNCHANGED <<keyVars, csvVars, stepVars>>

\* the mutant: Set keeps the timestamp of the item it replaces
SetItemKeepTime(m, id, data) ==
    [m EXCEPT ![id] = PlayerCacheItem(data, IF m[id] = NoItem THEN now ELSE m[id].CachedAt)]

\* the map after Set(id, data)
SetItem(m, id, data) == [m EXCEPT ![id] = PlayerCacheItem(data, now)]

\* PlayerCache.Set
Set(id, data) ==
    /\ pc = "idle" /\ playerCache
    /\ players' = SetItem(players, id, data)
    /\ dirty' = TRUE
    /\ ret' = [op |-> "Set", id |-> id, data |-> data]
    /\ UNCHANGED <<playerCache, file, now>>
    /\ UNCHANGED mergeVars
    /\ UNCHANGED <<keyVars, csvVars, stepVars>>

\* the mutant: every item counts as expired
ExpiredIdsAll(m, t) == { id \in Ids : m[id] # NoItem }

\* the ids of the items of m that are expired at time t
ExpiredIds(m, t) == { id \in Ids : m[id] # NoItem /\ Expired(m[id], t) }

\* the map after the loop of CleanExpired
Cleaned(m, t) == [id \in Ids |-> IF id \in ExpiredIds(m, t) THEN NoItem ELSE m[id]]

\* PlayerCache.CleanExpired
CleanExpired ==
    /\ pc = "idle" /\ playerCache
    /\ players' = Cleaned(players, now)
    /\ dirty' = (dirty \/ Cardinality(ExpiredIds(players, now)) > 0)
    /\ ret' = [op |-> "CleanExpired", removed |-> Cardinality(ExpiredIds(players, now))]
    /\ UNCHANGED <<playerCache, file, now>>
    /\ UNCHANGED mergeVars
    /\ UNCHANGED <<keyVars, csvVars, stepVars>>

\* PlayerCache.Clear
Clear ==
    /\ pc = "idle" /\ playerCache
    /\ players' = EmptyPlayers
    /\ dirty' = TRUE
    /\ file' = NoFile
    /\ ret' = [op |-> "Clear"]
    /\ UNCHANGED <<playerCache, now>>
    /\ UNCHANGED mergeVars
    /\ UNCHANGED <<keyVars, csvVars, stepVars>>

\* PlayerCache.Stats
Stats ==
    /\ pc = "idle" /\ playerCache
    /\ ret' = [op |-> "Stats",
               total |-> Cardinality({ id \in Ids : players[id] # NoItem }),
               expired |-> Cardinality(ExpiredIds(players, now))]
    /\ UNCHANGED <<playerCache, players, dirty, file, now>>
    /\ UNCHANGED mergeVars
    /\ UNCHANGED <<keyVars, csvVars, stepVars>>

\* the mutant: Save returns early although the cache is dirty
SaveFileSkip(ok) ==
    /\ file' = file
    /\ dirty' = dirty
    /\ ret' = [op |-> "Save", err |-> FALSE]

\* the body of PlayerCache.Save; ok: os.WriteFile and os.Rename succeed
SaveFile(ok) ==
    IF ~dirty
    THEN /\ UNCHANGED <<file, dirty>>
         /\ ret' = [op |-> "Save", err |-> FALSE]
    ELSE IF ok
    THEN /\ file' = players
         /\ dirty' = FALSE
         /\ ret' = [op |-> "Save", err |-> FALSE]
    ELSE /\ UNCHANGED <<file, dirty>>
         /\ ret' = [op |-> "Save", err |-> TRUE]

\* PlayerCache.Save
Save ==
    /\ pc = "idle" /\ playerCache
    /\ \E ok \in BOOLEAN : SaveFile(ok)
    /\ UNCHANGED <<playerCache, players, now>>
    /\ UNCHANGED mergeVars
    /\ UNCHANGED <<keyVars, csvVars, stepVars>>

\* time passes
Tick ==
    /\ now < MaxTime
    /\ now' = now + 1
    /\ UNCHANGED <<playerCache, players, dirty, file, ret>>
    /\ UNCHANGED mergeVars
    /\ UNCHANGED <<keyVars, csvVars, stepVars>>

(***************************************************************************)
(* run(): the cache merge of the use-cache and auto modes (main.go)        *)
(***************************************************************************)
Fail == [none |-> "response"]

\* the records of cachedData.Players after Load: what the Ranking Cache file
\* keeps of a player (at least the country code), never a name style
OverlayData == { [Name |-> "n2", NameStyle |-> NoStyle, Country |-> "B"],
                 [Name |-> "", NameStyle |-> NoStyle, Country |-> NoCountry] }

\* cachedData.Players as loaded, for the user ids of the loaded runs
Overlays(ids) == UNION { [D -> OverlayData] : D \in SUBSET ids }

\* var basePlayer models.PlayerData
ZeroPlayerData == [Name |-> "", NameStyle |-> NoStyle, Country |-> NoCountry]

EmptyMap == [id \in {} |-> ZeroPlayerData]

\* the mutant: an id missing from the Entity Cache is always fetched
MergeBranchNoOverlay(found, hasLbData) ==
    IF found THEN "cache" ELSE "fetch"

\* which of the three ways of the loop body resolves an id
MergeBranch(found, hasLbData) ==
    IF found THEN "cache"
    ELSE IF hasLbData THEN "overlay"
    ELSE "fetch"

\* the mutant: the Entity Cache record is used as it is
MergedFromCacheAsIs(data, hasLbData, basePlayer) == data

\* *data after the country code of the overlay was written into it
MergedFromCache(data, hasLbData, basePlayer) ==
    IF hasLbData /\ basePlayer.Country # NoCountry
    THEN [data EXCEPT !.Country = basePlayer.Country]
    ELSE data

\* the mutant: a failed fetch leaves a placeholder record in the map
FetchedPlaceholder(m, id, r) ==
    IF r = Fail THEN m @@ (id :> ZeroPlayerData) ELSE m @@ (id :> r)

\* cachedData.Players after client.GetUser returned r
Fetched(m, id, r) == IF r = Fail THEN m ELSE m @@ (id :> r)

\* the start of run(): NewPlayerCache, then CleanExpired and Stats when the
\* cache was created
RunInit ==
    /\ pc \in {"start", "done"}
    /\ pc' = "ready"
    /\ \E ok \in BOOLEAN :
        /\ playerCache' = ok
        /\ players' = IF ok THEN Cleaned(Load(file), now) ELSE EmptyPlayers
        /\ dirty' = (ok /\ Cardinality(ExpiredIds(Load(file), now)) > 0)
    /\ ret' = [op |-> "Stats"]
    /\ UNCHANGED <<file, now, playerIDs, leaderboardPlayers, todo, cachedPlayers,
                   requested, warned>>
    /\ UNCHANGED <<keyVars, csvVars, stepVars>>

\* lbCache.Load, the collection of playerIDs, and
\* leaderboardPlayers := cachedData.Players; cachedData.Players = make(...)
MergeStart ==
    /\ pc = "ready"
    /\ \E ids \in SUBSET Ids :
        /\ playerIDs' = ids
        /\ todo' = ids
        /\ leaderboardPlayers' \in Overlays(ids)
        /\ pc' = IF ids = {} THEN "save" ELSE "merge"
    /\ cachedPlayers' = EmptyMap
    /\ requested' = {}
    /\ warned' = {}
    /\ ret' = [op |-> "Load"]
    /\ UNCHANGED <<playerCache, players, dirty, file, now>>
    /\ UNCHANGED <<keyVars, csvVars, stepVars>>

\* one iteration of "for playerID := range playerIDs"
MergeStep(id) ==
    /\ pc = "merge"
    /\ id \in todo
    /\ todo' = todo \ {id}
    /\ pc' = IF todo' = {} THEN "save" ELSE "merge"
    /\ LET hasLbData == id \in DOMAIN leaderboardPlayers
           basePlayer == IF hasLbData THEN leaderboardPlayers[id] ELSE ZeroPlayerData
           found == playerCache /\ Found(id)
           branch == MergeBranch(found, hasLbData)
       IN \/ /\ branch = "cache"
             \* data points at the item of the cache: the write goes to both
             /\ LET data == MergedFromCache(players[id].Data, hasLbData, basePlayer)
                IN /\ players' = [players EXCEPT ![id].Data = data]
                   /\ cachedPlayers' = cachedPlayers @@ (id :> data)
             /\ ret' = [op |-> "MergeStep"]
             /\ UNCHANGED <<dirty, requested, warned>>
          \/ /\ branch = "overlay"
             /\ cachedPlayers' = cachedPlayers @@ (id :> basePlayer)
             /\ ret' = [op |-> "MergeStep"]
             /\ UNCHANGED <<players, dirty, requested, warned>>
          \/ /\ branch = "fetch"
             /\ requested' = requested \cup {id}
             /\ \E r \in RemoteData \cup {Fail} :
                 /\ cachedPlayers' = Fetched(cachedPlayers, id, r)
                 /\ IF r # Fail /\ playerCache
                    THEN players' = SetItem(players, id, r) /\ dirty' = TRUE
                    ELSE UNCHANGED <<players, dirty>>
                 /\ warned' = IF r = Fail THEN warned \cup {id} ELSE warned
                 /\ ret' = [op |-> "MergeStep"]
    /\ UNCHANGED <<playerCache, file, now, playerIDs, leaderboardPlayers>>
    /\ UNCHANGED <<keyVars, csvVars, stepVars>>

\* "Save cache to file" after the loop; a failure is only a warning
MergeSave ==
    /\ pc = "save"
    /\ pc' = "done"
    /\ IF playerCache
       THEN \E ok \in BOOLEAN : SaveFile(ok)
       ELSE UNCHANGED <<file, dirty>> /\ ret' = [op |-> "NoCache"]
    /\ UNCHANGED <<playerCache, players, now, playerIDs, leaderboardPlayers,
                   todo, cachedPlayers, requested, warned>>
    /\ UNCHANGED <<keyVars, csvVars, stepVars>>

(***************************************************************************)
(* cache.LeaderboardCache (the Ranking Cache): Save and Load               *)
(* A file is the sequence of records encoding/csv writes and reads back;   *)
(* every field is a string.  Times are held in milliseconds.               *)
(***************************************************************************)
MaxRuns == 2        \* largest number of runs in a snapshot

StrMeta == <<35, 77, 69, 84, 65>>                       \* "#META"
StrVersion == <<86, 69, 82, 83, 73, 79, 78>>            \* "VERSION"
StrGame == <<35, 71, 65, 77, 69>>                       \* "#GAME"
StrCategory == <<35, 67, 65, 84, 69, 71, 79, 82, 89>>   \* "#CATEGORY"
StrCachedAt == <<35, 67, 65, 67, 72, 69, 68, 95, 65, 84>> \* "#CACHED_AT"
StrVariable == <<35, 86, 65, 82, 73, 65, 66, 76, 69>>   \* "#VARIABLE"
StrRank == <<114, 97, 110, 107>>                        \* "rank"
StrUser == <<117, 115, 101, 114>>                       \* "user"
StrGuest == <<103, 117, 101, 115, 116>>                 \* "guest"
StrP1 == <<112, 49>>                                    \* "p1"
StrP2 == <<112, 50>>                                    \* "p2"
StrG1 == <<103, 49>>                                    \* "g1"
StrN1 == <<110, 49>>                                    \* "n1"
StrDate == <<50, 48, 50, 54, 45, 48, 50, 45, 48, 50>>   \* "2026-02-02"
StrU == <<117>>                                         \* "u"
StrVU == <<118, 117>>                                   \* "vu"
StrCeleste == <<67, 101, 108, 101, 115, 116, 101>>      \* "Celeste"
StrAny == <<65, 110, 121, 37>>                          \* "Any%"
ChHash == 35        \* '#'
ChDot == 46         \* '.'
ChPipe == 124       \* '|'
ChH == 72           \* 'H'
ChM == 77           \* 'M'
ChS == 83           \* 'S'
ChP == 80           \* 'P'
ChT == 84           \* 'T'
Ch9 == 57           \* '9'

\* the header row of Save
HeaderRow ==
    << StrRank,
       <<112, 108, 97, 121, 101, 114, 95, 105, 100>>,                 \* "player_id"
       <<112, 108, 97, 121, 101, 114, 95, 110, 97, 109, 101>>,        \* "player_name"
       <<116, 105, 109, 101, 95, 115, 101, 99, 111, 110, 100, 115>>,  \* "time_seconds"
       <<100, 97, 116, 101>>,                                         \* "date"
       <<115, 117, 98, 109, 105, 116, 95, 117, 114, 108>>,            \* "submit_url"
       <<114, 117, 110, 95, 105, 100>>,                               \* "run_id"
       <<118, 105, 100, 101, 111, 95, 108, 105, 110, 107, 115>> >>    \* "video_links"

IsDigit(c) == c >= Ch0 /\ c <= Ch9

\* fmt.Sprintf("%d", n), n >= 0
RECURSIVE Itoa(_)
Itoa(n) == IF n < 10 THEN <<Ch0 + n>> ELSE Itoa(n \div 10) \o <<Ch0 + (n % 10)>>

\* fmt.Sprintf("%.2f", t) for a time t of ms milliseconds: t rounded to the
\* nearest hundredth (the sample times have no millisecond digit 5, where
\* the direction depends on the binary value of t)
FormatSeconds(ms) ==
    LET cs == (ms + 5) \div 10
    IN Itoa(cs \div 100) \o <<ChDot>> \o <<Ch0 + ((cs % 100) \div 10), Ch0 + (cs % 10)>>

\* the leading digits of s and their value
RECURSIVE DigitsLen(_)
DigitsLen(s) == IF Len(s) > 0 /\ IsDigit(s[1]) THEN 1 + DigitsLen(Tail(s)) ELSE 0

RECURSIVE DigitsValue(_, _)
DigitsValue(s, acc) ==
    IF Len(s) > 0 /\ IsDigit(s[1]) THEN DigitsValue(Tail(s), acc * 10 + (s[1] - Ch0)) ELSE acc

\* fmt.Sscanf(s, "%d", &place): the variable keeps 0 when no digit is read
ScanInt(s) == DigitsValue(s, 0)

\* the value, in milliseconds, of a decimal text d[.f] with at most three
\* fraction digits; 0 when the text does not start with a digit
ScanMillis(s) ==
    LET n == DigitsLen(s)
        rest == SubSeq(s, n + 1, Len(s))
        frac == IF Len(rest) > 0 /\ rest[1] = ChDot THEN Tail(rest) ELSE <<>>
        k == DigitsLen(frac)
        f == DigitsValue(frac, 0)
    IN IF n = 0 THEN 0
       ELSE DigitsValue(s, 0) * 1000
            + (IF k = 0 THEN 0 ELSE IF k = 1 THEN f * 100 ELSE IF k = 2 THEN f * 10 ELSE f)

\* fmt.Sscanf(s, "%f", &primaryT)
ScanFloat(s) == ScanMillis(s)

\* strings.Split(s, "|")
RECURSIVE Split(_, _)
Split(s, sep) ==
    IF \E i \in 1..Len(s) : s[i] = sep
    THEN LET i == CHOOSE i \in 1..Len(s) : s[i] = sep /\ \A j \in 1..(i - 1) : s[j] # sep
         IN <<SubSeq(s, 1, i - 1)>> \o Split(SubSeq(s, i + 1, Len(s)), sep)
    ELSE <<s>>

\* strings.Index(s, <<c>>), counted from 0; -1 when c is not in s
Index(s, c) ==
    IF \E i \in 1..Len(s) : s[i] = c
    THEN (CHOOSE i \in 1..Len(s) : s[i] = c /\ \A j \in 1..(i - 1) : s[j] # c) - 1
    ELSE -1

\* parsed times t (in ms) for which the float64 value of
\* (t - float64(int(t))) * 100 lies just below the whole number of hundredths
TruncLossAt == {2010, 12340, 65100}

\* int((primaryT - float64(totalSeconds)) * 100)
Millis(ms) ==
    LET c == (ms % 1000) \div 10
    IN IF ms \in TruncLossAt THEN c - 1 ELSE c

\* Load: "Convert seconds to ISO 8601 format"
Primary(ms) ==
    LET totalSeconds == ms \div 1000
        hours == totalSeconds \div 3600
        minutes == (totalSeconds % 3600) \div 60
        seconds == totalSeconds % 60
        millis == Millis(ms)
    IN IF hours > 0
       THEN IF millis > 0
            THEN <<ChP, ChT>> \o Itoa(hours) \o <<ChH>> \o Itoa(minutes) \o <<ChM>>
                 \o Itoa(seconds) \o <<ChDot>> \o Itoa(millis) \o <<ChS>>
            ELSE <<ChP, ChT>> \o Itoa(hours) \o <<ChH>> \o Itoa(minutes) \o <<ChM>>
                 \o Itoa(seconds) \o <<ChS>>
       ELSE IF millis > 0
            THEN <<ChP, ChT>> \o Itoa(minutes) \o <<ChM>>
                 \o Itoa(seconds) \o <<ChDot>> \o Itoa(millis) \o <<ChS>>
            ELSE <<ChP, ChT>> \o Itoa(minutes) \o <<ChM>> \o Itoa(seconds) \o <<ChS>>

\* strconv.Atoi(s): 0 unless s is all digits
Atoi(s) == IF Len(s) > 0 /\ DigitsLen(s) = Len(s) THEN DigitsValue(s, 0) ELSE 0

\* strconv.ParseFloat(s, 64), in milliseconds: 0 unless s is d or d.f
ParseFloat(s) ==
    LET n == DigitsLen(s)
        rest == SubSeq(s, n + 1, Len(s))
    IN IF n > 0 /\ (rest = <<>> \/ (rest[1] = ChDot /\ Len(rest) > 1
                                     /\ DigitsLen(Tail(rest)) = Len(rest) - 1))
       THEN ScanMillis(s) ELSE 0

\* formatTimeISO: the hours, minutes and seconds parsed from the duration
\* string, as one time in milliseconds
ParseISO(isoTime) ==
    LET r0 == IF HasPrefix(isoTime, <<ChP, ChT>>) THEN SubSeq(isoTime, 3, Len(isoTime)) ELSE isoTime
        r1 == IF Len(r0) > 0 /\ r0[Len(r0)] = ChS THEN SubSeq(r0, 1, Len(r0) - 1) ELSE r0
        hIdx == Index(r1, ChH)
        hours == IF hIdx > 0 THEN Atoi(SubSeq(r1, 1, hIdx)) ELSE 0
        r2 == IF hIdx > 0 THEN SubSeq(r1, hIdx + 2, Len(r1)) ELSE r1
        mIdx == Index(r2, ChM)
        minutes == IF mIdx > 0 THEN Atoi(SubSeq(r2, 1, mIdx)) ELSE 0
        r3 == IF mIdx > 0 THEN SubSeq(r2, mIdx + 2, Len(r2)) ELSE r2
    IN hours * 3600000 + minutes * 60000 + ParseFloat(r3)

\* models.Player
User(id) == [Rel |-> StrUser, ID |-> id, Name |-> <<>>]
Guest(name) == [Rel |-> StrGuest, ID |-> <<>>, Name |-> name]

\* the entrant lists, times (ms) and video links of the sample runs
SamplePlayers == { <<>>, <<User(StrP1)>>, <<Guest(StrG1)>>, <<User(StrP2), User(StrP1)>> }
SampleTimes == { 0, 1050, 2010, 12343, 65100, 3725500 }
NoVideos == <<"nil">>
SampleVideos == { NoVideos, <<StrU, StrVU>> }

\* models.RunEntry with its RunData; the i-th run of a snapshot has place i
RunEntry(place, runPlayers, t, videos) ==
    [Place |-> place, ID |-> <<114>> \o Itoa(place), Players |-> runPlayers,
     Primary |-> <<>>, PrimaryT |-> t, Date |-> StrDate, SubmitURL |-> <<>>,
     Videos |-> videos]

SampleRuns(place) ==
    { RunEntry(place, ps, t, v) : ps \in SamplePlayers, t \in SampleTimes, v \in SampleVideos }

SampleRunLists ==
    UNION { { rs \in [1..n -> UNION { SampleRuns(i) : i \in 1..n }] :
                \A i \in 1..n : rs[i].Place = i } : n \in 0..MaxRuns }

StrUS == <<85, 83>>     \* "US"
StrCountryCode == <<99, 111, 117, 110, 116, 114, 121, 95, 99, 111, 100, 101>>  \* "country_code"

\* data.Players of a snapshot to save: p1 has a name and a country code, p2
\* has no entry
SnapshotPlayers == (StrP1 :> [International |-> StrN1, Name |-> <<>>, Country |-> StrUS])

SampleKey ==
    [GameID |-> <<ChA>>, GameName |-> StrCeleste, CategoryID |-> <<ChB>>,
     CategoryName |-> StrAny, Variables |-> (Str9dq73k2q :> StrMln1yv32)]

\* Save: the rows written for one run: one row for the first player, none
\* when run.Run.Players is empty
RowsOf(data, run) ==
    IF Len(run.Players) = 0 THEN <<>>
    ELSE LET player == run.Players[1]
             isUser == player.Rel = StrUser
             playerName ==
                 IF isUser
                 THEN IF player.ID \in DOMAIN data.Players
                      THEN IF data.Players[player.ID].International # <<>>
                           THEN data.Players[player.ID].International
                           ELSE data.Players[player.ID].Name
                      ELSE <<>>
                 ELSE player.Name
             playerID == IF isUser THEN player.ID ELSE <<>>
             videoLinks == IF run.Videos = NoVideos THEN <<>> ELSE run.Videos
         IN << << Itoa(run.Place), playerID, playerName, FormatSeconds(run.PrimaryT),
                  run.Date, run.SubmitURL, run.ID, Join(videoLinks, <<ChPipe>>) >> >>

RECURSIVE DataRows(_, _)
DataRows(data, runs) ==
    IF Len(runs) = 0 THEN <<>> ELSE RowsOf(data, runs[1]) \o DataRows(data, Tail(runs))

\* the records Save writes; order: the order in which the range over
\* data.Key.Variables visits the keys
SavedRecords(data, order) ==
    << <<StrMeta, StrVersion, <<49>>>>,
       <<StrGame, data.Key.GameID, data.Key.GameName>>,
       <<StrCategory, data.Key.CategoryID, data.Key.CategoryName>>,
       <<StrCachedAt, Itoa(data.CachedAt)>> >>
    \o [i \in 1..Len(order) |-> <<StrVariable, order[i], data.Key.Variables[order[i]]>>]
    \o <<HeaderRow>>
    \o DataRows(data, data.Runs)

\* LeaderboardCache.Save; ok: os.MkdirAll and os.Create succeed
SaveCsv(ok, order) ==
    /\ ret.op = "NewLeaderboardCache"
    /\ IF ok
       THEN /\ csvFile' = SavedRecords(snapshot, order)
            /\ ret' = [op |-> "SaveCsv", err |-> FALSE]
       ELSE /\ UNCHANGED csvFile
            /\ ret' = [op |-> "SaveCsv", err |-> TRUE]
    /\ UNCHANGED <<snapshot, loaded, decoded>>
    /\ UNCHANGED <<keyVars, mergeVars, playerCache, players, dirty, file, now, stepVars>>

\* Load: "Parse video links"
VideoLinks(field) == IF field # <<>> THEN Split(field, ChPipe) ELSE NoVideos

\* Load: the run built from a data row of at least 8 fields
RunOfRecord(record) ==
    LET primaryT == ScanFloat(record[4])
    IN [Place |-> ScanInt(record[1]),
        ID |-> record[7],
        Players |-> IF record[2] # <<>> THEN <<User(record[2])>> ELSE <<Guest(record[3])>>,
        Primary |-> Primary(primaryT),
        PrimaryT |-> primaryT,
        Date |-> record[5],
        SubmitURL |-> record[6],
        Videos |-> VideoLinks(record[8])]

\* what csv.Reader.Read yields for a line it cannot parse (a bare quote): an
\* error instead of a record
CsvError == <<Null>>

\* Load ends in a run-time panic: index out of range
Panic == [panic |-> "index out of range"]

\* Load: the records read before reader.Read returns an error, where the
\* loop breaks
RECURSIVE ReadAll(_)
ReadAll(lines) ==
    IF Len(lines) = 0 \/ lines[1] = CsvError THEN <<>>
    ELSE <<lines[1]>> \o ReadAll(Tail(lines))

\* Load: the loop over the records of the file
RECURSIVE ParseRecords(_, _)
ParseRecords(records, result) ==
    IF Len(records) = 0 THEN result
    ELSE LET record == records[1]
             rest == Tail(records)
         IN IF Len(record) = 0 THEN ParseRecords(rest, result)
            ELSE IF Len(record[1]) > 0 /\ record[1][1] = ChHash
            THEN IF record[1] \in {StrGame, StrCategory, StrCachedAt} /\ Len(record) < 2
                 THEN Panic
                 ELSE
                 ParseRecords(rest,
                    IF record[1] = StrGame
                    THEN [result EXCEPT !.Game.ID = record[2],
                                        !.Game.Name = IF Len(record) > 2 THEN record[3] ELSE @]
                    ELSE IF record[1] = StrCategory
                    THEN [result EXCEPT !.Category.ID = record[2],
                                        !.Category.Name = IF Len(record) > 2 THEN record[3] ELSE @]
                    ELSE IF record[1] = StrCachedAt
                    THEN [result EXCEPT !.CachedAt = ScanInt(record[2])]
                    ELSE IF record[1] = StrVariable /\ Len(record) > 2
                    THEN [result EXCEPT !.Key.Variables =
                            [k \in DOMAIN @ \cup {record[2]} |->
                                IF k = record[2] THEN record[3] ELSE @[k]]]
                    ELSE result)
            ELSE IF record[1] = StrRank THEN ParseRecords(rest, result)
            ELSE IF Len(record) >= 8
            THEN ParseRecords(rest, [result EXCEPT !.Runs = Append(@, RunOfRecord(record))])
            ELSE ParseRecords(rest, result)

\* Load: the result before the first record is read
EmptyResult(k) ==
    [Key |-> k, CachedAt |-> 0,
     Game |-> [ID |-> k.GameID, Name |-> k.GameName],
     Category |-> [ID |-> k.CategoryID, Name |-> k.CategoryName],
     Runs |-> <<>>,
     Players |-> <<>>]

\* the key Load is called with: the one the snapshot was saved under
LoadKey == IF snapshot = NoResult THEN SampleKey ELSE snapshot.Key

\* LeaderboardCache.Load, after a Save or over the file an earlier run left
LoadCsv ==
    /\ ret.op \in {"SaveCsv", "Start"}
    /\ loaded' = IF csvFile = NoCsv THEN NoFile
                 ELSE ParseRecords(ReadAll(csvFile), EmptyResult(LoadKey))
    /\ ret' = [op |-> "LoadCsv", err |-> FALSE]
    /\ UNCHANGED <<snapshot, csvFile, decoded>>
    /\ UNCHANGED <<keyVars, mergeVars, playerCache, players, dirty, file, now, stepVars>>

\* the template calls formatTimeISO on Times.Primary of every run
FormatTimes ==
    /\ ret.op = "LoadCsv"
    /\ loaded # NoFile /\ loaded # Panic
    /\ decoded' = [i \in 1..Len(loaded.Runs) |-> ParseISO(loaded.Runs[i].Primary)]
    /\ ret' = [op |-> "formatTimeISO"]
    /\ UNCHANGED <<snapshot, csvFile, loaded>>
    /\ UNCHANGED <<keyVars, mergeVars, playerCache, players, dirty, file, now, stepVars>>

(***************************************************************************)
(* Specifications                                                          *)
(***************************************************************************)
(***************************************************************************)
(* The two Save methods, one file system call at a time                    *)
(***************************************************************************)
\* a file that os.WriteFile has begun to write and not finished
Partial(content) == [partial |-> content]

\* the mutant: Save does not look at the dirty flag
SaveBeginAlways ==
    /\ savePc = "idle" /\ playerCache
    /\ before' = [before EXCEPT !.file = file]
    /\ savePc' = "marshalled"
    /\ UNCHANGED <<tmpFile, pending>>
    /\ UNCHANGED cacheVars
    /\ UNCHANGED <<keyVars, mergeVars, csvVars, fanVars, lockVars, extVars>>

\* PlayerCache.Save: c.mu.Lock(), the test of c.dirty, json.MarshalIndent
SaveBegin ==
    /\ savePc = "idle" /\ playerCache
    /\ before' = [before EXCEPT !.file = file]
    /\ IF ~dirty
       THEN /\ ret' = [op |-> "Save", err |-> FALSE]
            /\ UNCHANGED savePc
       ELSE /\ savePc' = "marshalled"
            /\ UNCHANGED ret
    /\ UNCHANGED <<tmpFile, pending>>
    /\ UNCHANGED <<playerCache, players, dirty, file, now>>
    /\ UNCHANGED <<keyVars, mergeVars, csvVars, fanVars, lockVars, extVars>>

\* os.WriteFile(tmpPath, ...) has created or truncated the temp file and
\* written a part of the data
SaveWriteTmp ==
    /\ savePc = "marshalled"
    /\ tmpFile' = Partial(players)
    /\ savePc' = "writing"
    /\ UNCHANGED <<before, pending>>
    /\ UNCHANGED cacheVars
    /\ UNCHANGED <<keyVars, mergeVars, csvVars, fanVars, lockVars, extVars>>

\* os.WriteFile returns; on an error Save returns and leaves the temp file
SaveWriteTmpEnd(ok) ==
    /\ savePc = "writing"
    /\ IF ok
       THEN /\ tmpFile' = players
            /\ savePc' = "tmpWritten"
            /\ UNCHANGED ret
       ELSE /\ savePc' = "idle"
            /\ ret' = [op |-> "Save", err |-> TRUE]
            /\ UNCHANGED tmpFile
    /\ UNCHANGED <<before, pending>>
    /\ UNCHANGED <<playerCache, players, dirty, file, now>>
    /\ UNCHANGED <<keyVars, mergeVars, csvVars, fanVars, lockVars, extVars>>

\* after a failed rename the target is removed instead of the temp file
SaveRenameRemovesTarget(ok) ==
    /\ savePc = "tmpWritten"
    /\ IF ok
       THEN /\ file' = tmpFile
            /\ savePc' = "renamed"
            /\ tmpFile' = NoFile
            /\ UNCHANGED ret
       ELSE /\ savePc' = "idle"
            /\ ret' = [op |-> "Save", err |-> TRUE]
            /\ file' = NoFile
            /\ UNCHANGED tmpFile
    /\ UNCHANGED <<before, pending>>
    /\ UNCHANGED <<playerCache, players, dirty, now>>
    /\ UNCHANGED <<keyVars, mergeVars, csvVars, fanVars, lockVars, extVars>>

\* os.Rename(tmpPath, path); on an error the temp file is removed
SaveRename(ok) ==
    /\ savePc = "tmpWritten"
    /\ IF ok
       THEN /\ file' = tmpFile
            /\ savePc' = "renamed"
            /\ UNCHANGED ret
       ELSE /\ savePc' = "idle"
            /\ ret' = [op |-> "Save", err |-> TRUE]
            /\ UNCHANGED file
    /\ tmpFile' = NoFile
    /\ UNCHANGED <<before, pending>>
    /\ UNCHANGED <<playerCache, players, dirty, now>>
    /\ UNCHANGED <<keyVars, mergeVars, csvVars, fanVars, lockVars, extVars>>

\* c.dirty = false; return nil
SaveClearDirty ==
    /\ savePc = "renamed"
    /\ dirty' = FALSE
    /\ savePc' = "idle"
    /\ ret' = [op |-> "Save", err |-> FALSE]
    /\ UNCHANGED <<tmpFile, before, pending>>
    /\ UNCHANGED <<playerCache, players, file, now>>
    /\ UNCHANGED <<keyVars, mergeVars, csvVars, fanVars, lockVars, extVars>>

\* LeaderboardCache.Save: os.MkdirAll and os.Create(path); Create truncates
\* the file of the key; the records go to the buffer of the csv.Writer
LbSaveCreate(ok, order) ==
    /\ savePc = "idle"
    /\ before' = [before EXCEPT !.csvFile = csvFile]
    /\ IF ok
       THEN /\ csvFile' = <<>>
            /\ pending' = SavedRecords(snapshot, order)
            /\ savePc' = "created"
            /\ UNCHANGED ret
       ELSE /\ ret' = [op |-> "SaveCsv", err |-> TRUE]
            /\ UNCHANGED <<csvFile, pending, savePc>>
    /\ UNCHANGED <<tmpFile, snapshot, loaded, decoded>>
    /\ UNCHANGED <<playerCache, players, dirty, file, now>>
    /\ UNCHANGED <<keyVars, mergeVars, fanVars, lockVars, extVars>>

\* the writer hands a part of its buffer to the file (the buffer is full, or
\* the deferred Flush runs); a failed write drops what is left, and Save
\* checks neither writer.Write nor writer.Error
LbSaveWrite(ok) ==
    /\ savePc = "created"
    /\ pending # <<>>
    /\ IF ok
       THEN /\ csvFile' = Append(csvFile, Head(pending))
            /\ pending' = Tail(pending)
       ELSE /\ pending' = <<>>
            /\ UNCHANGED csvFile
    /\ UNCHANGED <<savePc, tmpFile, before, snapshot, loaded, decoded>>
    /\ UNCHANGED cacheVars
    /\ UNCHANGED <<keyVars, mergeVars, fanVars, lockVars, extVars>>

\* the deferred file.Close(); Save returns nil
LbSaveClose ==
    /\ savePc = "created"
    /\ pending = <<>>
    /\ savePc' = "idle"
    /\ ret' = [op |-> "SaveCsv", err |-> FALSE]
    /\ UNCHANGED <<tmpFile, before, pending>>
    /\ UNCHANGED <<playerCache, players, dirty, file, now>>
    /\ UNCHANGED <<keyVars, mergeVars, csvVars, fanVars, lockVars, extVars>>

(***************************************************************************)
(* PlayerCache.mu: Get and Set called from several goroutines              *)
(***************************************************************************)
NumThreads == 2     \* goroutines calling into the cache at the same time

Threads == 1..NumThreads

\* the calls a goroutine can make
Calls ==
    [op : {"Get"}, id : Ids, data : {NoItem}]
    \cup [op : {"Set"}, id : Ids, data : StoredData \cup RemoteData]

\* the mutant: Lock does not wait for anybody
CanLockAlways == TRUE

\* sync.RWMutex: Lock waits for the writer and for all readers
CanLock == ~rwWriter /\ rwReaders = 0

\* sync.RWMutex: RLock waits for the writer
CanRLock == ~rwWriter

\* Get: c.mu.RLock()
RLock(t) ==
    /\ thread[t].op = "Get" /\ thread[t].at = "start"
    /\ CanRLock
    /\ rwReaders' = rwReaders + 1
    /\ thread' = [thread EXCEPT ![t].at = "locked"]
    /\ UNCHANGED rwWriter
    /\ UNCHANGED cacheVars
    /\ UNCHANGED <<keyVars, mergeVars, csvVars, saveVars, fanVars, extVars>>

\* Get: the lookup and the test of the age
GetRead(t) ==
    /\ thread[t].op = "Get" /\ thread[t].at = "locked"
    /\ thread' = [thread EXCEPT ![t].at = "read",
                                ![t].found = Found(thread[t].id),
                                ![t].data = IF Found(thread[t].id)
                                            THEN players[thread[t].id].Data ELSE NoItem]
    /\ UNCHANGED <<rwReaders, rwWriter>>
    /\ UNCHANGED cacheVars
    /\ UNCHANGED <<keyVars, mergeVars, csvVars, saveVars, fanVars, extVars>>

\* Get: the deferred c.mu.RUnlock()
RUnlock(t) ==
    /\ thread[t].op = "Get" /\ thread[t].at = "read"
    /\ rwReaders' = rwReaders - 1
    /\ thread' = [thread EXCEPT ![t].at = "done"]
    /\ UNCHANGED rwWriter
    /\ UNCHANGED cacheVars
    /\ UNCHANGED <<keyVars, mergeVars, csvVars, saveVars, fanVars, extVars>>

\* Set: c.mu.Lock()
Lock(t) ==
    /\ thread[t].op = "Set" /\ thread[t].at = "start"
    /\ CanLock
    /\ rwWriter' = TRUE
    /\ thread' = [thread EXCEPT ![t].at = "locked"]
    /\ UNCHANGED rwReaders
    /\ UNCHANGED cacheVars
    /\ UNCHANGED <<keyVars, mergeVars, csvVars, saveVars, fanVars, extVars>>

\* Set: the map assignment finds the table of c.players (a map assignment
\* is not one atomic write)
SetBegin(t) ==
    /\ thread[t].op = "Set" /\ thread[t].at = "locked"
    /\ thread' = [thread EXCEPT ![t].at = "assigning", ![t].m = players]
    /\ UNCHANGED <<rwReaders, rwWriter>>
    /\ UNCHANGED cacheVars
    /\ UNCHANGED <<keyVars, mergeVars, csvVars, saveVars, fanVars, extVars>>

\* Set: the map assignment completes; c.dirty = true
SetStore(t) ==
    /\ thread[t].op = "Set" /\ thread[t].at = "assigning"
    /\ players' = SetItem(thread[t].m, thread[t].id, thread[t].data)
    /\ dirty' = TRUE
    /\ thread' = [thread EXCEPT ![t].at = "stored", ![t].m = NoItem]
    /\ UNCHANGED <<rwReaders, rwWriter>>
    /\ UNCHANGED <<playerCache, file, now, ret>>
    /\ UNCHANGED <<keyVars, mergeVars, csvVars, saveVars, fanVars, extVars>>

\* Set: the deferred c.mu.Unlock()
Unlock(t) ==
    /\ thread[t].op = "Set" /\ thread[t].at = "stored"
    /\ rwWriter' = FALSE
    /\ thread' = [thread EXCEPT ![t].at = "done"]
    /\ UNCHANGED rwReaders
    /\ UNCHANGED cacheVars
    /\ UNCHANGED <<keyVars, mergeVars, csvVars, saveVars, fanVars, extVars>>

(***************************************************************************)
(* Client.doRequest (api/client.go)                                        *)
(***************************************************************************)
\* what HTTPClient.Do hands to doRequest: a transport error, or a response
\* with a status code and a body
Transport == [transport |-> "error"]
HttpResponse(status, body) == [StatusCode |-> status, Body |-> body]
BadJSON == [none |-> "json"]
ErrorBody == [message |-> "error"]

\* the ways a request can fail
ServerFailures ==
    {Transport, HttpResponse(404, ErrorBody), HttpResponse(500, ErrorBody),
     HttpResponse(200, BadJSON)}

\* doRequest sends the request again after a failure
SentRetry(log, h) ==
    IF h = Transport \/ h.StatusCode >= 300 THEN log \o <<h, h>> ELSE Append(log, h)

\* doRequest: the requests of an endpoint after one more call, which calls
\* HTTPClient.Do once
Sent(log, h) == Append(log, h)

\* Client.doRequest: one HTTPClient.Do; the decoded body, or Fail for an error
DoRequest(h) ==
    IF h = Transport THEN Fail
    ELSE IF h.StatusCode < 200 \/ h.StatusCode >= 300 THEN Fail
    ELSE IF h.Body = BadJSON THEN Fail
    ELSE h.Body

(***************************************************************************)
(* Client.GetLeaderboard: the backfill of the player data (api/client.go)  *)
(***************************************************************************)
SemaphoreCap == 2   \* capacity of the channel semaphore, scaled down

FanIds == Ids \cup {"p3"}   \* the user ids a leaderboard can refer to

Entrant(rel, id) == [Rel |-> rel, ID |-> id]

\* run.Run.Players of the runs of a response
SampleEntrants ==
    { <<>>,
      << <<Entrant("guest", "")>> >>,
      << <<Entrant("user", "p1")>>, <<Entrant("user", "p1")>> >>,
      << <<Entrant("user", "p2"), Entrant("user", "p1")>>, <<Entrant("guest", "")>>,
         <<Entrant("user", "p3")>>, <<Entrant("user", "p1")>> >> }

\* result.Data after doRequest: with "players" embedded, or without
Responses ==
    { [Runs |-> runs, Players |-> EmptyMap] : runs \in SampleEntrants }
    \cup { [Runs |-> << <<Entrant("user", "p1")>> >>,
            Players |-> ("p1" :> [Name |-> "n1", NameStyle |-> NoStyle, Country |-> "A"])] }

\* "Collect all unique player IDs": the keys of the map playerIDs
UserIDs(runs) ==
    { id \in FanIds : \E i \in 1..Len(runs) : \E j \in 1..Len(runs[i]) :
                          runs[i][j].Rel = "user" /\ runs[i][j].ID = id }

\* the ids that c.playerCache.Get reports found
CacheHits(ids) == IF playerCache THEN { id \in ids : Found(id) } ELSE {}

\* the mutant: every id is fetched, found in the cache or not
IdsToFetchAll(ids) == ids

\* idsToFetch after the loop over playerIDs, as a set
IdsToFetch(ids) == ids \ CacheHits(ids)

\* the mutant: the semaphore never makes a goroutine wait
SemaphoreFreeAlways == TRUE

\* semaphore <- struct{}{} can proceed
SemaphoreFree == semaphore < SemaphoreCap

\* the mutant: a goroutine stores whatever GetUser gave it
ShouldStoreAlways(r) == playerCache

\* "if err == nil { ...; if c.playerCache != nil { Set } }"
ShouldStore(r) == r # Fail /\ playerCache

\* the mutant: a failed fetch puts an empty record in the map
CollectedPlaceholder(m, r) ==
    IF r.data = Fail THEN (r.id :> ZeroPlayerData) @@ m ELSE (r.id :> r.data) @@ m

\* result.Data.Players after r was received from results
Collected(m, r) == IF r.data = Fail THEN m ELSE (r.id :> r.data) @@ m

\* the endpoints GetLeaderboard sends requests to: the leaderboard, and
\* /users/{id} per id
Endpoints == FanIds \cup {"leaderboard"}

\* the failures of a request seen by GetLeaderboard and GetUser
FanFailures == {Transport, HttpResponse(500, ErrorBody)}

\* what the service can answer to the leaderboard request and to a user request
LeaderboardAnswers == FanFailures \cup { HttpResponse(200, [Data |-> r]) : r \in Responses }
UserAnswers == FanFailures \cup { HttpResponse(200, [Data |-> d]) : d \in RemoteData }

\* Client.GetUser: the player data, or Fail for an error
GetUser(h) == IF DoRequest(h) = Fail THEN Fail ELSE DoRequest(h).Data

\* the leaderboard request itself: doRequest fails (also when ctx is
\* cancelled), or the response already carries the player data
FanRequest(h) ==
    /\ fpc = "idle"
    /\ cancelled => h = Transport
    /\ httpLog' = [httpLog EXCEPT !["leaderboard"] = Sent(@, h)]
    /\ LET r == DoRequest(h)
       IN IF r = Fail
          THEN /\ fpc' = "returned"
               /\ ret' = [op |-> "GetLeaderboard", err |-> TRUE, backfill |-> FALSE]
               /\ UNCHANGED response
          ELSE /\ response' = r.Data
               /\ IF DOMAIN r.Data.Players # {}
                  THEN /\ fpc' = "returned"
                       /\ ret' = [op |-> "GetLeaderboard", err |-> FALSE, backfill |-> FALSE]
                  ELSE /\ fpc' = "lookup"
                       /\ UNCHANGED ret
    /\ UNCHANGED <<idsToFetch, worker, fetched, resultsCh, collected, semaphore,
                   cancelled, fetchCount>>
    /\ UNCHANGED <<playerCache, players, dirty, file, now>>
    /\ UNCHANGED <<keyVars, mergeVars, csvVars, saveVars, lockVars, extVars>>

\* the ids are collected, the cache is consulted, and one goroutine is
\* started per id of idsToFetch
FanLookup ==
    /\ fpc = "lookup"
    /\ LET ids == UserIDs(response.Runs)
           hits == CacheHits(ids)
       IN /\ response' = [response EXCEPT !.Players = [id \in hits |-> players[id].Data]]
          /\ idsToFetch' = IdsToFetch(ids)
          /\ worker' = [id \in IdsToFetch(ids) |-> "queued"]
          /\ fetched' = [id \in IdsToFetch(ids) |-> NoItem]
    /\ resultsCh' = <<>>
    /\ collected' = 0
    /\ fpc' = "collect"
    /\ UNCHANGED <<semaphore, cancelled, fetchCount, httpLog>>
    /\ UNCHANGED cacheVars
    /\ UNCHANGED <<keyVars, mergeVars, csvVars, saveVars, lockVars, extVars>>

\* a goroutine takes a slot of the semaphore and calls GetUser
WorkerAcquire(id) ==
    /\ id \in DOMAIN worker /\ worker[id] = "queued"
    /\ SemaphoreFree
    /\ semaphore' = semaphore + 1
    /\ worker' = [worker EXCEPT ![id] = "fetching"]
    /\ fetchCount' = [fetchCount EXCEPT ![id] = @ + 1]
    /\ UNCHANGED <<fpc, response, idsToFetch, fetched, resultsCh, collected, cancelled,
                   httpLog>>
    /\ UNCHANGED cacheVars
    /\ UNCHANGED <<keyVars, mergeVars, csvVars, saveVars, lockVars, extVars>>

\* GetUser returns r (an error once ctx is cancelled) and the goroutine
\* sends its playerResult
WorkerFetch(id, h) ==
    /\ id \in DOMAIN worker /\ worker[id] = "fetching"
    /\ cancelled => h = Transport
    /\ httpLog' = [httpLog EXCEPT ![id] = Sent(@, h)]
    /\ fetched' = [fetched EXCEPT ![id] = GetUser(h)]
    /\ resultsCh' = Append(resultsCh, [id |-> id, data |-> GetUser(h)])
    /\ worker' = [worker EXCEPT ![id] = "sent"]
    /\ UNCHANGED <<fpc, response, idsToFetch, collected, semaphore, cancelled, fetchCount>>
    /\ UNCHANGED cacheVars
    /\ UNCHANGED <<keyVars, mergeVars, csvVars, saveVars, lockVars, extVars>>

\* "Save to cache": c.playerCache.Set(id, *data), after the send
WorkerSet(id) ==
    /\ id \in DOMAIN worker /\ worker[id] = "sent"
    /\ ShouldStore(fetched[id])
    /\ players' = SetItem(players, id, fetched[id])
    /\ dirty' = TRUE
    /\ worker' = [worker EXCEPT ![id] = "stored"]
    /\ UNCHANGED <<fpc, response, idsToFetch, fetched, resultsCh, collected, semaphore,
                   cancelled, fetchCount, httpLog>>
    /\ UNCHANGED <<playerCache, file, now, ret>>
    /\ UNCHANGED <<keyVars, mergeVars, csvVars, saveVars, lockVars, extVars>>

\* the goroutine ends without giving its slot back
ReleasedNever(s) == s

\* defer func() { <-semaphore }(): the slots taken after it
Released(s) == s - 1

\* the deferred <-semaphore; the goroutine ends
WorkerRelease(id) ==
    /\ id \in DOMAIN worker
    /\ \/ worker[id] = "stored"
       \/ worker[id] = "sent" /\ ~ShouldStore(fetched[id])
    /\ semaphore' = Released(semaphore)
    /\ worker' = [worker EXCEPT ![id] = "done"]
    /\ UNCHANGED <<fpc, response, idsToFetch, fetched, resultsCh, collected, cancelled,
                   fetchCount, httpLog>>
    /\ UNCHANGED cacheVars
    /\ UNCHANGED <<keyVars, mergeVars, csvVars, saveVars, lockVars, extVars>>

\* "Collect results": one r := <-results
Collect ==
    /\ fpc = "collect"
    /\ collected < Cardinality(idsToFetch)
    /\ resultsCh # <<>>
    /\ response' = [response EXCEPT !.Players = Collected(@, Head(resultsCh))]
    /\ resultsCh' = Tail(resultsCh)
    /\ collected' = collected + 1
    /\ UNCHANGED <<fpc, idsToFetch, worker, fetched, semaphore, cancelled, fetchCount, httpLog>>
    /\ UNCHANGED cacheVars
    /\ UNCHANGED <<keyVars, mergeVars, csvVars, saveVars, lockVars, extVars>>

\* "Save cache to file" after the loop; a failure is only a warning
FanSave ==
    /\ fpc = "collect"
    /\ collected = Cardinality(idsToFetch)
    /\ fpc' = "saved"
    /\ IF playerCache
       THEN \E ok \in BOOLEAN : SaveFile(ok)
       ELSE UNCHANGED <<file, dirty>> /\ ret' = [op |-> "NoCache"]
    /\ UNCHANGED <<response, idsToFetch, worker, fetched, resultsCh, collected, semaphore,
                   cancelled, fetchCount, httpLog>>
    /\ UNCHANGED <<playerCache, players, now>>
    /\ UNCHANGED <<keyVars, mergeVars, csvVars, saveVars, lockVars, extVars>>

\* return &result.Data, nil
FanReturn ==
    /\ fpc = "saved"
    /\ fpc' = "returned"
    /\ ret' = [op |-> "GetLeaderboard", err |-> FALSE, backfill |-> TRUE]
    /\ UNCHANGED <<response, idsToFetch, worker, fetched, resultsCh, collected, semaphore,
                   cancelled, fetchCount, httpLog>>
    /\ UNCHANGED <<playerCache, players, dirty, file, now>>
    /\ UNCHANGED <<keyVars, mergeVars, csvVars, saveVars, lockVars, extVars>>

\* the context handed to GetLeaderboard is cancelled
Cancel ==
    /\ ~cancelled
    /\ fpc # "returned"
    /\ cancelled' = TRUE
    /\ UNCHANGED <<fpc, response, idsToFetch, worker, fetched, resultsCh, collected,
                   semaphore, fetchCount, httpLog>>
    /\ UNCHANGED cacheVars
    /\ UNCHANGED <<keyVars, mergeVars, csvVars, saveVars, lockVars, extVars>>

(***************************************************************************)
(* Client.SearchGameByName (api/client.go)                                 *)
(***************************************************************************)
PageSize == 2       \* the max parameter of GetGames (200 in the program)
MaxCatalog == 3     \* largest number of games the remote service lists

ChUpperA == 65      \* 'A'
ChUpperZ == 90      \* 'Z'
StrAb == <<97, 98>>             \* "ab"
StrMixedAb == <<97, 66>>        \* "aB"
StrUpperAb == <<65, 66>>        \* "AB"
StrZz == <<122, 122>>           \* "zz"
StrCab == <<67, 65, 98>>        \* "CAb"
StrAbc == <<97, 98, 99>>        \* "abc"
StrXy == <<120, 121>>           \* "xy"
StrQ == <<113>>                 \* "q"
StrW == <<119>>                 \* "w"
StrZed == <<90, 101, 100>>      \* "Zed"
StrG2 == <<103, 50>>            \* "g2"
StrG3 == <<103, 51>>            \* "g3"
StrG4 == <<103, 52>>            \* "g4"

\* strings.ToLower, on ASCII text
ToLower(s) ==
    [i \in 1..Len(s) |-> IF s[i] >= ChUpperA /\ s[i] <= ChUpperZ THEN s[i] + 32 ELSE s[i]]

\* strings.EqualFold, on ASCII text
EqualFold(s, t) == ToLower(s) = ToLower(t)

\* models.Game
Game(id, abbreviation, international) ==
    [ID |-> id, Abbreviation |-> abbreviation, Names |-> [International |-> international]]

NoGame == [none |-> "game"]

\* the games of the samples: g1 and g4 contain "ab" in their display names,
\* g3 has the abbreviation "AB"
SampleGames ==
    {Game(StrG1, StrXy, StrCab), Game(StrG2, StrQ, StrQ),
     Game(StrG3, StrUpperAb, StrZed), Game(StrG4, StrW, StrAbc)}

\* the catalogs of the remote service: lists of distinct games
Catalogs ==
    UNION { { c \in [1..n -> SampleGames] : \A i, j \in 1..n : c[i] = c[j] => i = j }
            : n \in 0..MaxCatalog }

SampleNames == {StrAb, StrMixedAb, StrZz}

\* the page of the catalog the service returns for an offset
Page(games, off) ==
    SubSeq(games, off + 1, IF off + PageSize < Len(games) THEN off + PageSize ELSE Len(games))

\* the first index of a sequence that satisfies a test, 0 when there is none
FirstIndex(indexes) ==
    IF indexes = {} THEN 0 ELSE CHOOSE i \in indexes : \A j \in indexes : i <= j

\* SearchGameByName, the fuzzy name match tried before the abbreviation match
MatchGameFuzzyFirst(games, n) ==
    LET fuzzy == FirstIndex({ i \in 1..Len(games) :
                    Contains(ToLower(games[i].Names.International), ToLower(n)) })
        abbr == FirstIndex({ i \in 1..Len(games) : EqualFold(games[i].Abbreviation, n) })
    IN IF fuzzy # 0 THEN games[fuzzy]
       ELSE IF abbr # 0 THEN games[abbr]
       ELSE NoGame

\* SearchGameByName: "First try exact abbreviation match", "Then try fuzzy
\* name match"
MatchGame(games, n) ==
    LET abbr == FirstIndex({ i \in 1..Len(games) : EqualFold(games[i].Abbreviation, n) })
        fuzzy == FirstIndex({ i \in 1..Len(games) :
                    Contains(ToLower(games[i].Names.International), ToLower(n)) })
    IN IF abbr # 0 THEN games[abbr]
       ELSE IF fuzzy # 0 THEN games[fuzzy]
       ELSE NoGame

\* the loop goes on only after a page of more than the page size
MorePagesStrict(games) == Len(games) > PageSize

\* GetAllGames: the loop goes on unless len(games) < 200
MorePages(games) == ~(Len(games) < PageSize)

Tried(tier, outcome) == Append(tiers, [tier |-> tier, outcome |-> outcome])

\* SearchGameByName up to the end of its first request, /games/{name}
SearchDirect(h) ==
    /\ spc = "direct"
    /\ LET r == DoRequest(h)
       IN IF r # Fail
          THEN /\ searchRet' = [err |-> "", game |-> r.Data]
               /\ tiers' = Tried("direct", "match")
               /\ spc' = "done"
          ELSE /\ tiers' = Tried("direct", "error")
               /\ spc' = "search"
               /\ UNCHANGED searchRet
    /\ UNCHANGED <<searchName, catalog, allGames, offset>>
    /\ UNCHANGED <<keyVars, cacheVars, mergeVars, csvVars, saveVars, fanVars, lockVars, dirVars,
                   runVars>>

\* SearchGameByName from there to the end of its second request,
\* /games?name={name}&max=1
SearchByName(h) ==
    /\ spc = "search"
    /\ LET r == DoRequest(h)
       IN IF r = Fail
          THEN /\ searchRet' = [err |-> "request", game |-> NoGame]
               /\ tiers' = Tried("search", "error")
               /\ spc' = "done"
          ELSE IF Len(r.Data) > 0
          THEN /\ searchRet' = [err |-> "", game |-> r.Data[1]]
               /\ tiers' = Tried("search", "match")
               /\ spc' = "done"
          ELSE /\ tiers' = Tried("search", "nomatch")
               /\ spc' = "catalog"
               /\ UNCHANGED searchRet
    /\ allGames' = <<>>
    /\ offset' = 0
    /\ UNCHANGED <<searchName, catalog>>
    /\ UNCHANGED <<keyVars, cacheVars, mergeVars, csvVars, saveVars, fanVars, lockVars, dirVars,
                   runVars>>

\* one round of the loop of GetAllGames: GetGames(offset); after the last
\* page, the two matching loops of SearchGameByName
GetGames(h) ==
    /\ spc = "catalog"
    /\ LET r == DoRequest(h)
           all == allGames \o r.Data
       IN IF r = Fail
          THEN /\ searchRet' = [err |-> "request", game |-> NoGame]
               /\ tiers' = Tried("catalog", "error")
               /\ spc' = "done"
               /\ allGames' = <<>>
               /\ UNCHANGED offset
          ELSE IF MorePages(r.Data)
          THEN /\ allGames' = all
               /\ offset' = offset + Len(r.Data)
               /\ UNCHANGED <<spc, tiers, searchRet>>
          ELSE /\ allGames' = all
               /\ searchRet' = IF MatchGame(all, searchName) # NoGame
                               THEN [err |-> "", game |-> MatchGame(all, searchName)]
                               ELSE [err |-> "game not found", game |-> NoGame]
               /\ tiers' = Tried("catalog",
                                 IF MatchGame(all, searchName) # NoGame THEN "match" ELSE "nomatch")
               /\ spc' = "done"
               /\ UNCHANGED offset
    /\ UNCHANGED <<searchName, catalog>>
    /\ UNCHANGED <<keyVars, cacheVars, mergeVars, csvVars, saveVars, fanVars, lockVars, dirVars,
                   runVars>>

(***************************************************************************)
(* cache.LeaderboardCache: the files of the cache directory                *)
(***************************************************************************)
StrBVar == <<ChB, ChUnderscore>> \o KeyPart(Str9dq73k2q, StrMln1yv32)  \* "b_9dq73k2q=mln1yv32"

\* the keys of the calls: the second and the third have the same String()
DirKeys ==
    { [GameID |-> <<ChA>>, GameName |-> StrCeleste, CategoryID |-> <<ChB>>,
       CategoryName |-> StrAny, Variables |-> <<>>],
      SampleKey,
      [GameID |-> <<ChA>>, GameName |-> StrCeleste, CategoryID |-> StrBVar,
       CategoryName |-> StrAny, Variables |-> <<>>] }

\* an order in which the range over the Variables of a key visits them
SomeOrder(k) == CHOOSE order \in Perms(DOMAIN k.Variables) : TRUE

\* c.GetFileName(key), within c.dir
GetFileName(k) == FileName(k, SomeOrder(k))

FileNames == { GetFileName(k) : k \in DirKeys }

\* the *CachedLeaderboard saveToCache builds for a key
DirSnapshot(k, runs) ==
    [Key |-> k, CachedAt |-> StartTime,
     Game |-> [ID |-> k.GameID, Name |-> k.GameName],
     Category |-> [ID |-> k.CategoryID, Name |-> k.CategoryName],
     Runs |-> runs, Players |-> SnapshotPlayers]

\* os.Create opens the file for appending
CreateAppend(old) == IF old = NoCsv THEN <<>> ELSE old

\* os.Create: the file is created, or truncated when it exists
Create(old) == <<>>

\* LeaderboardCache.Save; ok: os.MkdirAll and os.Create succeed
DirSave(k, runs, ok) ==
    /\ IF ok
       THEN /\ lbDir' = [lbDir EXCEPT ![GetFileName(k)] =
                            Create(@) \o SavedRecords(DirSnapshot(k, runs), SomeOrder(k))]
            /\ lbHist' = [lbHist EXCEPT ![GetFileName(k)] = DirSnapshot(k, runs)]
            /\ lbMade' = TRUE
       ELSE /\ UNCHANGED <<lbDir, lbHist>>
            /\ lbMade' \in {lbMade, TRUE}
    /\ lbRet' = [op |-> "Save", key |-> k, err |-> ~ok]
    /\ UNCHANGED <<keyVars, cacheVars, mergeVars, csvVars, saveVars, fanVars, lockVars, searchVars,
                   runVars>>

\* LeaderboardCache.Load
DirLoad(k) ==
    /\ lbRet' = [op |-> "Load", key |-> k, err |-> FALSE,
                 result |-> IF lbDir[GetFileName(k)] = NoCsv THEN NoFile
                            ELSE ParseRecords(ReadAll(lbDir[GetFileName(k)]), EmptyResult(k))]
    /\ UNCHANGED <<lbDir, lbHist, lbMade>>
    /\ UNCHANGED <<keyVars, cacheVars, mergeVars, csvVars, saveVars, fanVars, lockVars, searchVars,
                   runVars>>

\* LeaderboardCache.Exists
Exists(k) ==
    /\ lbRet' = [op |-> "Exists", key |-> k, result |-> lbDir[GetFileName(k)] # NoCsv]
    /\ UNCHANGED <<lbDir, lbHist, lbMade>>
    /\ UNCHANGED <<keyVars, cacheVars, mergeVars, csvVars, saveVars, fanVars, lockVars, searchVars,
                   runVars>>

StrCsvExt == <<46, 99, 115, 118>>                                  \* ".csv"
\* cacheFileName, the name of the file of the PlayerCache
StrPlayersJson == <<112, 108, 97, 121, 101, 114, 115, 46, 106, 115, 111, 110>>

\* every name has every suffix
HasSuffixAny(s, suffix) == TRUE

\* strings.HasSuffix
HasSuffix(s, suffix) ==
    /\ Len(s) >= Len(suffix)
    /\ SubSeq(s, Len(s) - Len(suffix) + 1, Len(s)) = suffix

\* LeaderboardCache.Delete: os.Remove of the path of the key, an error when
\* there is no such file; players.json is in the same directory
Delete(k) ==
    /\ lbDir' = [lbDir EXCEPT ![GetFileName(k)] = NoCsv]
    /\ lbHist' = [lbHist EXCEPT ![GetFileName(k)] = NoResult]
    /\ file' = IF GetFileName(k) = StrPlayersJson THEN NoFile ELSE file
    /\ lbRet' = [op |-> "Delete", key |-> k, err |-> lbDir[GetFileName(k)] = NoCsv]
    /\ UNCHANGED <<lbMade, playerCache, players, dirty, now, ret>>
    /\ UNCHANGED <<keyVars, mergeVars, csvVars, saveVars, fanVars, lockVars, searchVars,
                   runVars>>

\* LeaderboardCache.Clear: nil when the directory is missing; else every
\* entry of the directory that is no directory and whose name ends in .csv
\* is removed, and the error of os.Remove is dropped
DirClear ==
    /\ IF lbMade
       THEN /\ lbDir' = [f \in DOMAIN lbDir |->
                            IF HasSuffix(f, StrCsvExt) THEN NoCsv ELSE lbDir[f]]
            /\ lbHist' = [f \in DOMAIN lbHist |->
                            IF HasSuffix(f, StrCsvExt) THEN NoResult ELSE lbHist[f]]
            /\ file' = IF HasSuffix(StrPlayersJson, StrCsvExt) THEN NoFile ELSE file
       ELSE UNCHANGED <<lbDir, lbHist, file>>
    /\ lbRet' = [op |-> "Clear", err |-> FALSE]
    /\ UNCHANGED <<lbMade, playerCache, players, dirty, now, ret>>
    /\ UNCHANGED <<keyVars, mergeVars, csvVars, saveVars, fanVars, lockVars, searchVars,
                   runVars>>

(***************************************************************************)
(* run() (main.go): the three cache modes                                  *)
(***************************************************************************)
StrN2 == <<110, 50>>    \* "n2"

\* a player id, a name and a country code as the Entity Cache and as the
\* models of the CSV rows spell them
IdOf(b) == IF b = StrP1 THEN "p1" ELSE "p2"
BytesOfName(n) == IF n = "n1" THEN StrN1 ELSE IF n = "n2" THEN StrN2 ELSE <<>>
BytesOfCountry(c) == IF c = NoCountry THEN <<>> ELSE StrUS

\* the user ids of all players of the runs
RunUserIDs(runs) ==
    { id \in Ids : \E i \in 1..Len(runs) : \E j \in 1..Len(runs[i].Players) :
        runs[i].Players[j].Rel = StrUser /\ IdOf(runs[i].Players[j].ID) = id }

\* the ids for which GetUser returned data
Got(ids, answers) == { id \in ids : GetUser(answers[id]) # Fail }

\* the Players map once every id was looked up in the Entity Cache and the
\* missing ones were requested from the service
Enriched(ids, answers) ==
    [id \in CacheHits(ids) \cup Got(IdsToFetch(ids), answers) |->
        IF id \in CacheHits(ids) THEN players[id].Data ELSE GetUser(answers[id])]

\* PlayerCache.players after the Set of every record fetched for toFetch
CacheAfter(toFetch, answers) ==
    [id \in Ids |->
        IF playerCache /\ id \in Got(toFetch, answers)
        THEN PlayerCacheItem(GetUser(answers[id]), now)
        ELSE players[id]]

\* PlayerCache.dirty after them
DirtyAfter(toFetch, answers) == dirty \/ (playerCache /\ Got(toFetch, answers) # {})

\* playerCache.Save() returns an error: there is a cache, it is dirty, and the
\* file cannot be written
SaveFails(toFetch, answers, pcOk) == playerCache /\ DirtyAfter(toFetch, answers) /\ ~pcOk

\* the Sets of the fetched records and the final playerCache.Save()
EnrichAndSave(toFetch, answers, pcOk) ==
    /\ players' = CacheAfter(toFetch, answers)
    /\ IF playerCache /\ DirtyAfter(toFetch, answers) /\ pcOk
       THEN file' = CacheAfter(toFetch, answers) /\ dirty' = FALSE
       ELSE file' = file /\ dirty' = DirtyAfter(toFetch, answers)

\* the warnings and the failures are pairs <<kind, id>>
FetchFailures(failed) == { <<"fetch", id>> : id \in failed }

\* the warnings GetLeaderboard prints for the ids whose fetch failed: none,
\* the goroutine drops the error
FanWarnings(failed) == {}

\* the warnings the merge loop of run() prints for them
MergeWarnings(failed) == FetchFailures(failed)

\* the warning for a failed Save of either cache
SaveWarnings(failed, what) == IF failed THEN {<<what, "">>} ELSE {}

\* use-cache mode without a cache file fetches the leaderboard
BranchFallback(m, exists, confirm) ==
    IF m.refreshCache THEN "fetch"
    ELSE IF m.useCache THEN (IF exists THEN "cache" ELSE "fetch")
    ELSE IF exists /\ m.interactive /\ confirm THEN "cache"
    ELSE "fetch"

\* the use-cache flag is looked at before the refresh flag
BranchUseCacheFirst(m, exists, confirm) ==
    IF m.useCache THEN (IF exists THEN "cache" ELSE "error")
    ELSE IF m.refreshCache THEN "fetch"
    ELSE IF exists /\ m.interactive /\ confirm THEN "cache"
    ELSE "fetch"

\* "Check if using cache": the branch run() takes; exists: lbCache.Exists,
\* confirm: the answer to "Use cached data?"
Branch(m, exists, confirm) ==
    IF m.refreshCache THEN "fetch"
    ELSE IF m.useCache THEN (IF exists THEN "cache" ELSE "error")
    ELSE IF exists /\ m.interactive /\ confirm THEN "cache"
    ELSE "fetch"

\* saveToCache: cachedData.Players, the records of leaderboard.Players for
\* the users of the runs
CachedPlayersOf(runs, pls) ==
    [b \in { c \in {StrP1, StrP2} : IdOf(c) \in DOMAIN pls \cap RunUserIDs(runs) } |->
        [International |-> BytesOfName(pls[IdOf(b)].Name), Name |-> <<>>,
         Country |-> BytesOfCountry(pls[IdOf(b)].Country)]]

\* saveToCache: the *CachedLeaderboard handed to Save
CachedData(lb) ==
    [Key |-> SampleKey, CachedAt |-> now,
     Game |-> [ID |-> SampleKey.GameID, Name |-> SampleKey.GameName],
     Category |-> [ID |-> SampleKey.CategoryID, Name |-> SampleKey.CategoryName],
     Runs |-> lb.Runs, Players |-> CachedPlayersOf(lb.Runs, lb.Players)]

\* run() up to the end of the player cache initialisation; ok: MkdirAll
\* succeeds, so that NewPlayerCache returns a cache
RunStart(ok) ==
    /\ rpc = "start"
    /\ rpc' = "resolve"
    /\ playerCache' = (ok /\ NewPlayerCache(file))
    /\ players' = IF ok THEN Cleaned(Load(file), now) ELSE EmptyPlayers
    /\ dirty' = (ok /\ ExpiredIds(Load(file), now) # {})
    /\ stderr' = stderr \cup SaveWarnings(~ok, "init")
    /\ failures' = failures \cup SaveWarnings(~ok, "init")
    /\ UNCHANGED <<mode, runErr, source, leaderboard, remote, output>>
    /\ UNCHANGED <<file, now, ret>>
    /\ UNCHANGED <<keyVars, mergeVars, csvVars, saveVars, fanVars, lockVars, searchVars, dirVars>>

\* the resolution of game, category and variables, which ends run() with an
\* error or yields the cache key
RunResolve(found) ==
    /\ rpc = "resolve"
    /\ remote' = remote \cup {"games"}
    /\ IF found
       THEN rpc' = "rank" /\ UNCHANGED runErr
       ELSE rpc' = "done" /\ runErr' = "failed to search game"
    /\ UNCHANGED <<mode, source, leaderboard, stderr, failures, output>>
    /\ UNCHANGED <<keyVars, cacheVars, mergeVars, csvVars, saveVars, fanVars, lockVars,
                   searchVars, dirVars>>

BytesOfId(id) == IF id = "p1" THEN StrP1 ELSE StrP2

\* the merge loop of run(): the ids it requests from the service
MergeIdsToFetch(ld, ids) ==
    { id \in ids : MergeBranch(playerCache /\ Found(id), BytesOfId(id) \in DOMAIN ld.Players) = "fetch" }

\* the merge loop of run(): cachedData.Players
Merged(ld, ids, answers) ==
    [id \in (ids \ MergeIdsToFetch(ld, ids)) \cup Got(MergeIdsToFetch(ld, ids), answers) |->
        IF id \in MergeIdsToFetch(ld, ids) THEN GetUser(answers[id])
        ELSE IF playerCache /\ Found(id)
        THEN MergedFromCache(players[id].Data, BytesOfId(id) \in DOMAIN ld.Players,
                             IF BytesOfId(id) \in DOMAIN ld.Players
                             THEN ld.Players[BytesOfId(id)] ELSE ZeroPlayerData)
        ELSE ld.Players[BytesOfId(id)]]

\* the fetch of the three branches that call client.GetLeaderboard and
\* saveToCache; confirm: the answer to the prompt; h: the answer to the
\* leaderboard request; answers: the answers to the user requests; pcOk,
\* lbOk: the two cache files can be written
RunFetch(confirm, h, answers, pcOk, lbOk, order) ==
    /\ rpc = "rank"
    /\ Branch(mode, csvFile # NoCsv, confirm) = "fetch"
    /\ remote' = remote \cup {"leaderboard"}
                 \cup (IF DoRequest(h) # Fail /\ DOMAIN DoRequest(h).Data.Players = {}
                       THEN IdsToFetch(RunUserIDs(DoRequest(h).Data.Runs)) ELSE {})
    /\ IF DoRequest(h) = Fail
       THEN /\ rpc' = "done"
            /\ runErr' = "failed to get leaderboard"
            /\ UNCHANGED <<source, leaderboard, stderr, failures, players, dirty, file, csvFile>>
       ELSE LET runs == DoRequest(h).Data.Runs
                backfill == DOMAIN DoRequest(h).Data.Players = {}
                toFetch == IF backfill THEN IdsToFetch(RunUserIDs(runs)) ELSE {}
                failed == toFetch \ Got(toFetch, answers)
                pcFails == backfill /\ SaveFails(toFetch, answers, pcOk)
                lb == [Runs |-> runs,
                       Players |-> IF backfill THEN Enriched(RunUserIDs(runs), answers)
                                   ELSE DoRequest(h).Data.Players]
            IN /\ rpc' = "generate"
               /\ UNCHANGED runErr
               /\ source' = "remote"
               /\ leaderboard' = lb
               /\ IF backfill THEN EnrichAndSave(toFetch, answers, pcOk)
                  ELSE UNCHANGED <<players, dirty, file>>
               /\ csvFile' = IF lbOk THEN Create(csvFile) \o SavedRecords(CachedData(lb), order)
                              ELSE csvFile
               /\ stderr' = stderr \cup FanWarnings(failed)
                            \cup SaveWarnings(pcFails, "pcsave") \cup SaveWarnings(~lbOk, "lbsave")
               /\ failures' = failures \cup FetchFailures(failed)
                              \cup SaveWarnings(pcFails, "pcsave") \cup SaveWarnings(~lbOk, "lbsave")
    /\ UNCHANGED <<mode, output, playerCache, now, ret, snapshot, loaded, decoded>>
    /\ UNCHANGED <<keyVars, mergeVars, saveVars, fanVars, lockVars, searchVars, dirVars>>

\* the two branches that call lbCache.Load and merge the player data
RunFromCache(confirm, answers, pcOk) ==
    /\ rpc = "rank"
    /\ Branch(mode, csvFile # NoCsv, confirm) = "cache"
    /\ LET ld == ParseRecords(ReadAll(csvFile), EmptyResult(SampleKey))
           ids == RunUserIDs(ld.Runs)
           toFetch == MergeIdsToFetch(ld, ids)
           failed == toFetch \ Got(toFetch, answers)
           pcFails == SaveFails(toFetch, answers, pcOk)
       IN IF ld = Panic
          THEN /\ rpc' = "done"
               /\ runErr' = "panic"
               /\ loaded' = ld
               /\ UNCHANGED <<source, leaderboard, stderr, failures, remote,
                              players, dirty, file>>
          ELSE /\ rpc' = "generate"
               /\ UNCHANGED runErr
               /\ loaded' = ld
               /\ source' = "cache"
               /\ leaderboard' = [Runs |-> ld.Runs, Players |-> Merged(ld, ids, answers)]
               /\ EnrichAndSave(toFetch, answers, pcOk)
               /\ remote' = remote \cup toFetch
               /\ stderr' = stderr \cup MergeWarnings(failed) \cup SaveWarnings(pcFails, "pcsave")
               /\ failures' = failures \cup FetchFailures(failed)
                              \cup SaveWarnings(pcFails, "pcsave")
    /\ UNCHANGED <<mode, output, playerCache, now, ret, snapshot, csvFile, decoded>>
    /\ UNCHANGED <<keyVars, mergeVars, saveVars, fanVars, lockVars, searchVars, dirVars>>

\* use-cache mode without a file for the key
RunNoCache(confirm) ==
    /\ rpc = "rank"
    /\ Branch(mode, csvFile # NoCsv, confirm) = "error"
    /\ rpc' = "done"
    /\ runErr' = "cache does not exist, please run once to create cache"
    /\ UNCHANGED <<mode, source, leaderboard, stderr, failures, remote, output>>
    /\ UNCHANGED <<keyVars, cacheVars, mergeVars, csvVars, saveVars, fanVars, lockVars,
                   searchVars, dirVars>>

\* "Generating page...": the entries rendered; ok: the generator is created
\* and Generate writes the page
RunGenerate(ok) ==
    /\ rpc = "generate"
    /\ rpc' = "done"
    /\ IF ok
       THEN output' = leaderboard.Runs /\ UNCHANGED runErr
       ELSE runErr' = "failed to generate page" /\ UNCHANGED output
    /\ UNCHANGED <<mode, source, leaderboard, stderr, failures, remote>>
    /\ UNCHANGED <<keyVars, cacheVars, mergeVars, csvVars, saveVars, fanVars, lockVars,
                   searchVars, dirVars>>

KeyIdle ==
    /\ key = [GameID |-> <<ChA>>, CategoryID |-> <<ChB>>, Variables |-> <<>>]
    /\ results = [c \in 1..NumCalls |-> Null]

MergeIdle ==
    /\ pc = "idle"
    /\ playerIDs = {}
    /\ leaderboardPlayers = EmptyMap
    /\ todo = {}
    /\ cachedPlayers = EmptyMap
    /\ requested = {}
    /\ warned = {}

CsvIdle ==
    /\ snapshot = NoResult
    /\ csvFile = NoCsv
    /\ loaded = NoResult
    /\ decoded = Null

CacheIdle ==
    /\ playerCache = FALSE
    /\ players = EmptyPlayers
    /\ dirty = FALSE
    /\ file = NoFile
    /\ now = StartTime
    /\ ret = [op |-> "Open"]

SaveIdle ==
    /\ savePc = "idle"
    /\ tmpFile = NoFile
    /\ before = [file |-> NoFile, csvFile |-> NoCsv]
    /\ pending = <<>>

FanIdle ==
    /\ fpc = "idle"
    /\ response = NoResult
    /\ idsToFetch = {}
    /\ worker = <<>>
    /\ fetched = <<>>
    /\ resultsCh = <<>>
    /\ collected = 0
    /\ semaphore = 0
    /\ cancelled = FALSE
    /\ fetchCount = <<>>
    /\ httpLog = <<>>

LockIdle ==
    /\ rwReaders = 0
    /\ rwWriter = FALSE
    /\ thread = <<>>

SearchIdle ==
    /\ spc = "idle"
    /\ searchName = <<>>
    /\ catalog = <<>>
    /\ tiers = <<>>
    /\ allGames = <<>>
    /\ offset = 0
    /\ searchRet = NoResult

DirIdle ==
    /\ lbDir = <<>>
    /\ lbHist = <<>>
    /\ lbRet = [op |-> "NewLeaderboardCache"]
    /\ lbMade = FALSE

RunIdle ==
    /\ mode = [useCache |-> FALSE, refreshCache |-> FALSE, interactive |-> FALSE]
    /\ rpc = "idle"
    /\ runErr = ""
    /\ source = "none"
    /\ leaderboard = NoResult
    /\ stderr = {}
    /\ failures = {}
    /\ remote = {}
    /\ output = NoPage

ExtIdle == SearchIdle /\ DirIdle /\ RunIdle

\* what players.json can hold when the program starts
InitFiles ==
    {NoFile} \cup
    [Ids -> {NoItem} \cup { PlayerCacheItem(d, t) : d \in StoredData, t \in 0..StartTime }]

\* the program starts over a cache directory
Init ==
    /\ KeyIdle
    /\ pc = "start"
    /\ playerIDs = {}
    /\ leaderboardPlayers = EmptyMap
    /\ todo = {}
    /\ cachedPlayers = EmptyMap
    /\ requested = {}
    /\ warned = {}
    /\ playerCache = FALSE
    /\ file \in InitFiles
    /\ players = EmptyPlayers
    /\ dirty = FALSE
    /\ now = StartTime
    /\ ret = [op |-> "Start"]
    /\ CsvIdle
    /\ SaveIdle /\ FanIdle /\ LockIdle /\ ExtIdle

\* runs of the program in the use-cache and auto modes
Next ==
    \/ RunInit
    \/ MergeStart
    \/ \E id \in Ids : MergeStep(id)
    \/ MergeSave
    \/ Tick

Spec == Init /\ [][Next]_vars

\* the state after NewPlayerCache
InitCache ==
    /\ KeyIdle
    /\ MergeIdle
    /\ playerCache = TRUE
    /\ file \in InitFiles
    /\ players = Load(file)
    /\ dirty = FALSE
    /\ now = StartTime
    /\ ret = [op |-> "Open"]
    /\ CsvIdle
    /\ SaveIdle /\ FanIdle /\ LockIdle /\ ExtIdle

\* any sequence of calls on the PlayerCache
NextCache ==
    \/ Open
    \/ \E id \in Ids : Get(id)
    \/ \E id \in Ids : \E data \in StoredData \cup RemoteData : Set(id, data)
    \/ CleanExpired
    \/ Clear
    \/ Stats
    \/ Save
    \/ Tick

SpecCache == InitCache /\ [][NextCache]_vars

InitKey ==
    /\ key \in CacheKeys
    /\ results = [c \in 1..NumCalls |-> Null]
    /\ CacheIdle
    /\ MergeIdle
    /\ CsvIdle
    /\ SaveIdle /\ FanIdle /\ LockIdle /\ ExtIdle

\* one call of String() on a key holding the pairs of key.Variables
CallString(c, order) ==
    /\ results[c] = Null
    /\ results' = [results EXCEPT ![c] = String(key, order)]
    /\ UNCHANGED key
    /\ UNCHANGED cacheVars
    /\ UNCHANGED mergeVars
    /\ UNCHANGED csvVars
    /\ UNCHANGED stepVars

NextKey ==
    \E c \in 1..NumCalls : \E order \in Perms(DOMAIN key.Variables) : CallString(c, order)

SpecKey == InitKey /\ [][NextKey]_vars

\* a snapshot to save, and an empty cache directory
InitCsv ==
    /\ key = [GameID |-> SampleKey.GameID, CategoryID |-> SampleKey.CategoryID,
              Variables |-> SampleKey.Variables]
    /\ results = [c \in 1..NumCalls |-> Null]
    /\ MergeIdle
    /\ playerCache = FALSE
    /\ players = EmptyPlayers
    /\ dirty = FALSE
    /\ file = NoFile
    /\ now = StartTime
    /\ ret = [op |-> "NewLeaderboardCache"]
    /\ \E runs \in SampleRunLists :
        snapshot = [Key |-> SampleKey, CachedAt |-> StartTime,
                    Game |-> [ID |-> SampleKey.GameID, Name |-> SampleKey.GameName],
                    Category |-> [ID |-> SampleKey.CategoryID, Name |-> SampleKey.CategoryName],
                    Runs |-> runs, Players |-> SnapshotPlayers]
    /\ csvFile = NoCsv
    /\ loaded = NoResult
    /\ decoded = Null
    /\ SaveIdle /\ FanIdle /\ LockIdle /\ ExtIdle

\* save, load, render
NextCsv ==
    \/ \E ok \in BOOLEAN : \E order \in Perms(DOMAIN snapshot.Key.Variables) : SaveCsv(ok, order)
    \/ LoadCsv
    \/ FormatTimes

SpecCsv == InitCsv /\ [][NextCsv]_vars

\* the snapshots handed to LeaderboardCache.Save
SaveRunLists ==
    { <<>>,
      <<RunEntry(1, <<User(StrP1)>>, 2010, NoVideos)>>,
      <<RunEntry(1, <<User(StrP1)>>, 2010, NoVideos),
        RunEntry(2, <<Guest(StrG1)>>, 65100, <<StrU, StrVU>>)>> }

SnapshotOf(runs) ==
    [Key |-> SampleKey, CachedAt |-> StartTime,
     Game |-> [ID |-> SampleKey.GameID, Name |-> SampleKey.GameName],
     Category |-> [ID |-> SampleKey.CategoryID, Name |-> SampleKey.CategoryName],
     Runs |-> runs, Players |-> SnapshotPlayers]

\* a cache directory with or without files of an earlier run, an open Entity
\* Cache, and a snapshot to save
InitSave ==
    /\ KeyIdle
    /\ MergeIdle
    /\ playerCache = TRUE
    /\ file \in {NoFile, [id \in Ids |-> PlayerCacheItem(CHOOSE d \in StoredData : TRUE, StartTime)]}
    /\ players = Load(file)
    /\ dirty = FALSE
    /\ now = StartTime
    /\ ret = [op |-> "Open"]
    /\ snapshot \in { SnapshotOf(runs) : runs \in SaveRunLists }
    /\ csvFile \in {NoCsv, SavedRecords(SnapshotOf(<<>>), <<Str9dq73k2q>>)}
    /\ loaded = NoResult
    /\ decoded = Null
    /\ savePc = "idle"
    /\ tmpFile = NoFile
    /\ before = [file |-> file, csvFile |-> csvFile]
    /\ pending = <<>>
    /\ FanIdle /\ LockIdle /\ ExtIdle

\* saves of the two caches, step by step; c.mu keeps Set out of a Save
NextSave ==
    \/ SaveBegin
    \/ SaveWriteTmp
    \/ \E ok \in BOOLEAN : SaveWriteTmpEnd(ok)
    \/ \E ok \in BOOLEAN : SaveRename(ok)
    \/ SaveClearDirty
    \/ \E ok \in BOOLEAN : \E order \in Perms(DOMAIN snapshot.Key.Variables) :
            LbSaveCreate(ok, order)
    \/ \E ok \in BOOLEAN : LbSaveWrite(ok)
    \/ LbSaveClose
    \/ savePc = "idle" /\ \E id \in Ids : \E data \in RemoteData : Set(id, data)

SpecSave == InitSave /\ [][NextSave]_vars

\* an open Entity Cache and goroutines about to call Get or Set
InitLock ==
    /\ KeyIdle
    /\ MergeIdle
    /\ CsvIdle
    /\ SaveIdle
    /\ FanIdle /\ ExtIdle
    /\ playerCache = TRUE
    /\ file \in { NoFile }
             \cup { [id \in Ids |-> PlayerCacheItem(d, t)] : d \in StoredData, t \in {0, StartTime} }
    /\ players = Load(file)
    /\ dirty = FALSE
    /\ now = StartTime
    /\ ret = [op |-> "Open"]
    /\ rwReaders = 0
    /\ rwWriter = FALSE
    /\ \E calls \in [Threads -> Calls] :
        thread = [t \in Threads |->
                    [op |-> calls[t].op, id |-> calls[t].id, data |-> calls[t].data,
                     at |-> "start", found |-> FALSE, m |-> NoItem]]

NextLock ==
    \E t \in Threads :
        \/ RLock(t)
        \/ GetRead(t)
        \/ RUnlock(t)
        \/ Lock(t)
        \/ SetBegin(t)
        \/ SetStore(t)
        \/ Unlock(t)

SpecLock == InitLock /\ [][NextLock]_vars

\* what the Entity Cache holds when GetLeaderboard is called: nothing, or a
\* young item for p1 and an expired one for p2
FanCaches ==
    { [id \in FanIds |-> NoItem],
      [id \in FanIds |->
          IF id = "p1" THEN PlayerCacheItem([Name |-> "n1", NameStyle |-> "solid", Country |-> "A"], StartTime)
          ELSE IF id = "p2" THEN PlayerCacheItem([Name |-> "n2", NameStyle |-> NoStyle, Country |-> NoCountry], 0)
          ELSE NoItem] }

\* a client with or without a player cache, about to call GetLeaderboard
InitFanout ==
    /\ KeyIdle
    /\ MergeIdle
    /\ CsvIdle
    /\ SaveIdle
    /\ LockIdle /\ ExtIdle
    /\ playerCache \in BOOLEAN
    /\ players \in FanCaches
    /\ file = players
    /\ dirty = FALSE
    /\ now = StartTime
    /\ ret = [op |-> "Open"]
    /\ fpc = "idle"
    /\ response = NoResult
    /\ idsToFetch = {}
    /\ worker = <<>>
    /\ fetched = <<>>
    /\ resultsCh = <<>>
    /\ collected = 0
    /\ semaphore = 0
    /\ cancelled = FALSE
    /\ fetchCount = [id \in FanIds |-> 0]
    /\ httpLog = [ep \in Endpoints |-> <<>>]

NextFanout ==
    \/ \E h \in LeaderboardAnswers : FanRequest(h)
    \/ FanLookup
    \/ \E id \in FanIds : WorkerAcquire(id)
    \/ \E id \in FanIds : \E h \in UserAnswers : WorkerFetch(id, h)
    \/ \E id \in FanIds : WorkerSet(id)
    \/ \E id \in FanIds : WorkerRelease(id)
    \/ Collect
    \/ FanSave
    \/ FanReturn
    \/ Cancel

SpecFanout == InitFanout /\ [][NextFanout]_vars

\* the caller and every goroutine get to run; nothing makes Cancel happen
SpecFanoutLive ==
    /\ SpecFanout
    /\ WF_vars(\/ \E h \in LeaderboardAnswers : FanRequest(h)
               \/ FanLookup \/ Collect \/ FanSave \/ FanReturn)
    /\ \A id \in FanIds :
        WF_vars(\/ WorkerAcquire(id)
                \/ \E h \in UserAnswers : WorkerFetch(id, h)
                \/ WorkerSet(id)
                \/ WorkerRelease(id))

\* SearchGameByName is called with a name, over a remote catalog
InitSearch ==
    /\ KeyIdle /\ MergeIdle /\ CsvIdle /\ CacheIdle /\ SaveIdle /\ FanIdle /\ LockIdle
    /\ DirIdle /\ RunIdle
    /\ spc = "direct"
    /\ searchName \in SampleNames
    /\ catalog \in Catalogs
    /\ tiers = <<>>
    /\ allGames = <<>>
    /\ offset = 0
    /\ searchRet = NoResult

\* the remote service answers each request with a failure or with games of
\* its catalog
NextSearch ==
    \/ \E h \in ServerFailures
             \cup { HttpResponse(200, [Data |-> catalog[i]]) : i \in 1..Len(catalog) } :
         SearchDirect(h)
    \/ \E h \in ServerFailures \cup { HttpResponse(200, [Data |-> <<>>]) }
             \cup { HttpResponse(200, [Data |-> <<catalog[i]>>]) : i \in 1..Len(catalog) } :
         SearchByName(h)
    \/ \E h \in ServerFailures \cup { HttpResponse(200, [Data |-> Page(catalog, offset)]) } :
         GetGames(h)

SpecSearch == InitSearch /\ [][NextSearch]_vars

\* every request is answered, so that SearchGameByName takes its next step
SpecSearchLive == SpecSearch /\ WF_vars(NextSearch)

MaxLines == 3       \* largest number of lines of a damaged cache file

StrX == <<120>>     \* "x"

\* a data row as Save writes it
Row(rank, playerID, playerName, seconds, runID) ==
    <<rank, playerID, playerName, seconds, StrDate, <<>>, runID, <<>>>>

\* the lines a cache file is made of: lines as Save writes them, and lines
\* damaged by a crash or an edit: a prologue line without its fields, a row
\* cut short, a rank or a time that is no number, a line that is no CSV
FileLines ==
    { <<StrGame, <<ChA>>, StrCeleste>>,
      <<StrGame>>,
      <<StrCachedAt>>,
      HeaderRow,
      Row(Itoa(1), StrP1, StrN1, FormatSeconds(1050), <<114, 49>>),
      Row(Itoa(2), <<>>, StrG1, FormatSeconds(2010), <<114, 50>>),
      <<Itoa(3), StrP1>>,
      Row(StrX, StrP2, <<>>, FormatSeconds(2010), <<114, 51>>),
      Row(Itoa(3), StrP2, <<>>, StrX, <<114, 51>>),
      CsvError }

FileContents == UNION { [1..n -> FileLines] : n \in 0..MaxLines }

\* the program starts over a cache file of any content
InitCsvLoad ==
    /\ KeyIdle /\ MergeIdle /\ SaveIdle /\ FanIdle /\ LockIdle /\ ExtIdle
    /\ playerCache = FALSE
    /\ players = EmptyPlayers
    /\ dirty = FALSE
    /\ file = NoFile
    /\ now = StartTime
    /\ ret = [op |-> "Start"]
    /\ snapshot = NoResult
    /\ csvFile \in FileContents
    /\ loaded = NoResult
    /\ decoded = Null

\* load, render
NextCsvLoad ==
    \/ LoadCsv
    \/ FormatTimes

SpecCsvLoad == InitCsvLoad /\ [][NextCsvLoad]_vars

\* the program starts over a players.json that is missing, unreadable,
\* malformed, or as a Save wrote it
InitOpen ==
    /\ KeyIdle /\ MergeIdle /\ CsvIdle /\ SaveIdle /\ FanIdle /\ LockIdle /\ ExtIdle
    /\ playerCache = FALSE
    /\ players = EmptyPlayers
    /\ dirty = FALSE
    /\ file \in InitFiles \cup {Unreadable, Malformed}
    /\ now = StartTime
    /\ ret = [op |-> "Start"]

\* NewPlayerCache, then the calls run() and GetLeaderboard make on the cache
NextOpen ==
    \/ Open
    \/ /\ playerCache
       /\ \/ \E id \in Ids : Get(id)
          \/ \E id \in Ids : \E data \in RemoteData : Set(id, data)
          \/ CleanExpired
          \/ Stats
          \/ Save

SpecOpen == InitOpen /\ [][NextOpen]_vars

\* NewLeaderboardCache over an empty cache directory
\* the directory is missing, or it is there without any .csv file, with or
\* without the players.json of a PlayerCache opened on the same directory
InitDir ==
    /\ KeyIdle /\ MergeIdle /\ CsvIdle /\ SaveIdle /\ FanIdle /\ LockIdle
    /\ SearchIdle /\ RunIdle
    /\ lbMade \in BOOLEAN
    /\ playerCache = lbMade
    /\ file \in IF lbMade
                THEN {NoFile,
                      [id \in Ids |->
                          IF id = "p1"
                          THEN PlayerCacheItem(CHOOSE d \in StoredData : TRUE, StartTime)
                          ELSE NoItem]}
                ELSE {NoFile}
    /\ players = Load(file)
    /\ dirty = FALSE
    /\ now = StartTime
    /\ ret = [op |-> "Open"]
    /\ lbDir = [f \in FileNames |-> NoCsv]
    /\ lbHist = [f \in FileNames |-> NoResult]
    /\ lbRet = [op |-> "NewLeaderboardCache"]

\* any sequence of calls on the LeaderboardCache
NextDir ==
    \/ \E k \in DirKeys : \E runs \in SaveRunLists : \E ok \in BOOLEAN : DirSave(k, runs, ok)
    \/ \E k \in DirKeys : DirLoad(k)
    \/ \E k \in DirKeys : Exists(k)
    \/ \E k \in DirKeys : Delete(k)
    \/ DirClear
    \/ \E data \in RemoteData : Set("p2", data)

SpecDir == InitDir /\ [][NextDir]_vars

\* the runs the service answers with: those of the snapshots, and one whose
\* first run has two users
RunLists ==
    SaveRunLists \cup
    { <<RunEntry(1, <<User(StrP2), User(StrP1)>>, 1050, NoVideos),
        RunEntry(2, <<User(StrP1)>>, 2010, NoVideos)>> }

\* the answers to the leaderboard request: failures, runs without player
\* data, and one answer with "players" embedded
RunAnswers ==
    FanFailures
    \cup { HttpResponse(200, [Data |-> [Runs |-> runs, Players |-> EmptyMap]]) : runs \in RunLists }
    \cup { HttpResponse(200, [Data |-> [Runs |-> <<RunEntry(1, <<User(StrP1)>>, 2010, NoVideos)>>,
             Players |-> ("p1" :> [Name |-> "n1", NameStyle |-> NoStyle, Country |-> "A"])]]) }

\* the players.json an earlier run left: p1 still valid, p2 expired
RunFile ==
    [id \in Ids |->
        IF id = "p1"
        THEN PlayerCacheItem([Name |-> "n1", NameStyle |-> "solid", Country |-> "A"], StartTime)
        ELSE PlayerCacheItem([Name |-> "n2", NameStyle |-> NoStyle, Country |-> NoCountry], 0)]

\* the program starts in one of its cache modes, on a terminal or not, over
\* the cache files earlier runs left
InitRun ==
    /\ KeyIdle /\ MergeIdle /\ FanIdle /\ LockIdle /\ SearchIdle /\ DirIdle
    /\ playerCache = FALSE
    /\ players = EmptyPlayers
    /\ dirty = FALSE
    /\ file \in {NoFile, RunFile}
    /\ now = StartTime
    /\ ret = [op |-> "Start"]
    /\ snapshot = NoResult
    /\ csvFile \in {NoCsv} \cup { SavedRecords(SnapshotOf(runs), <<Str9dq73k2q>>) : runs \in SaveRunLists }
    /\ loaded = NoResult
    /\ decoded = Null
    /\ savePc = "idle"
    /\ tmpFile = NoFile
    /\ before = [file |-> file, csvFile |-> csvFile]
    /\ pending = <<>>
    /\ mode \in [useCache : BOOLEAN, refreshCache : BOOLEAN, interactive : BOOLEAN]
    /\ rpc = "start"
    /\ runErr = ""
    /\ source = "none"
    /\ leaderboard = NoResult
    /\ stderr = {}
    /\ failures = {}
    /\ remote = {}
    /\ output = NoPage

\* one run of the program
NextRun ==
    \/ \E ok \in BOOLEAN : RunStart(ok)
    \/ \E found \in BOOLEAN : RunResolve(found)
    \/ \E confirm \in BOOLEAN : \E h \in RunAnswers : \E answers \in [Ids -> UserAnswers] :
         \E pcOk \in BOOLEAN : \E lbOk \in BOOLEAN :
         \E order \in Perms(DOMAIN SampleKey.Variables) :
           RunFetch(confirm, h, answers, pcOk, lbOk, order)
    \/ \E confirm \in BOOLEAN : \E answers \in [Ids -> UserAnswers] : \E pcOk \in BOOLEAN :
           RunFromCache(confirm, answers, pcOk)
    \/ \E confirm \in BOOLEAN : RunNoCache(confirm)
    \/ \E ok \in BOOLEAN : RunGenerate(ok)

SpecRun == InitRun /\ [][NextRun]_vars

(***************************************************************************)
(* Ranking Cache key: claims                                               *)
(***************************************************************************)
ScenarioPair == Str9dq73k2q \o <<ChEq>> \o StrMln1yv32
ScenarioKey(k) == k.GameID \o <<ChUnderscore>> \o k.CategoryID \o <<ChUnderscore>> \o ScenarioPair
HasScenarioPair ==
    Str9dq73k2q \in DOMAIN key.Variables /\ key.Variables[Str9dq73k2q] = StrMln1yv32

\* the bytes taken by one _key=value segment per pair of the filter set
RECURSIVE SegmentsLen(_)
SegmentsLen(m) ==
    IF DOMAIN m = {} THEN 0
    ELSE LET k == CHOOSE x \in DOMAIN m : TRUE
         IN 1 + Len(k) + 1 + Len(m[k]) + SegmentsLen([x \in DOMAIN m \ {k} |-> m[x]])

\* C5: for a fixed subject and grouping, String() calls on filter sets holding
\* the same pairs return the same string (and so the same file name), in
\* whatever order the map is iterated.
C5_KeyCanonical ==
    \A c, d \in 1..NumCalls :
        results[c] # Null /\ results[d] # Null => results[c] = results[d]

C5_Witness ==
    /\ Cardinality(DOMAIN key.Variables) >= 2
    /\ \A c \in 1..NumCalls : results[c] # Null

\* C6 as stated: whenever the filter set holds 9dq73k2q=mln1yv32, the key is
\* <subjectId>_<groupingId>_9dq73k2q=mln1yv32, whatever other filters it holds.
C6_ScenarioAsStated ==
    \A c \in 1..NumCalls :
        results[c] # Null /\ HasScenarioPair => results[c] = ScenarioKey(key)

\* C6 amended: the filter set holding exactly that pair gives
\* <subjectId>_<groupingId>_9dq73k2q=mln1yv32; with other filters the key
\* still starts with <subjectId>_<groupingId> and holds the segment
\* _9dq73k2q=mln1yv32, next to one segment per other filter.
C6_Scenario ==
    \A c \in 1..NumCalls :
        results[c] # Null /\ HasScenarioPair =>
            /\ Cardinality(DOMAIN key.Variables) = 1 => results[c] = ScenarioKey(key)
            /\ HasPrefix(results[c], key.GameID \o <<ChUnderscore>> \o key.CategoryID \o <<ChUnderscore>>)
            /\ Contains(results[c], <<ChUnderscore>> \o ScenarioPair)
            /\ Len(results[c]) =
                    Len(key.GameID) + 1 + Len(key.CategoryID) + SegmentsLen(key.Variables)

C6_Witness ==
    /\ HasScenarioPair
    /\ Cardinality(DOMAIN key.Variables) = 1
    /\ \E c \in 1..NumCalls : results[c] = ScenarioKey(key)

\* C38: no key that differs from the key in GameID, CategoryID or Variables
\* has the string of the key, whatever characters the ids and the values hold
C38_KeyInjective ==
    \A c \in 1..NumCalls :
        results[c] # Null =>
            \A k \in CacheKeys : \A order \in Perms(DOMAIN k.Variables) :
                k # key => String(k, order) # results[c]

(***************************************************************************)
(* The cache merge: claims                                                 *)
(***************************************************************************)
\* the step is the loop iteration of the merge that visits id
Visits(id) == pc = "merge" /\ id \in todo /\ id \notin todo'

\* playerCache != nil and playerCache.Get(id) reports found
FoundInCache(id) == playerCache /\ players[id] # NoItem /\ now - players[id].CachedAt <= TTL

C3_RemoteFallback ==
    /\ [][\A id \in Ids :
            ( /\ Visits(id)
              /\ ~FoundInCache(id)
              /\ id \notin DOMAIN leaderboardPlayers )
            => /\ requested' = requested \cup {id}
               /\ todo' = todo \ {id}
               /\ pc' = IF todo' = {} THEN "save" ELSE "merge"
               /\ \/ /\ id \in DOMAIN cachedPlayers'
                     /\ cachedPlayers'[id] \in RemoteData
                     /\ warned' = warned
                     /\ playerCache =>
                            /\ players' = [players EXCEPT
                                   ![id] = PlayerCacheItem(cachedPlayers'[id], now)]
                            /\ dirty'
                  \/ /\ id \notin DOMAIN cachedPlayers'
                     /\ warned' = warned \cup {id}
                     /\ UNCHANGED <<players, dirty, file>>]_vars
    /\ [](pc \in {"save", "done"} =>
            /\ todo = {}
            /\ DOMAIN cachedPlayers \cup warned = playerIDs
            /\ DOMAIN cachedPlayers \cap warned = {})

\* a run that ended with one id fetched and stored and another one failed
C3_Witness ==
    /\ pc = "done"
    /\ playerCache
    /\ \E id1, id2 \in playerIDs :
        /\ id1 \in warned
        /\ id1 \notin DOMAIN cachedPlayers
        /\ id2 \in requested \ warned
        /\ players[id2] # NoItem
        /\ players[id2].Data = cachedPlayers[id2]

\* C4: when the merge is over and the save succeeded, every record fetched
\* and stored during the merge is in the persisted file and the dirty flag is
\* clear.
C4_PersistAfterMerge ==
    (pc = "done" /\ playerCache /\ ret = [op |-> "Save", err |-> FALSE]) =>
        /\ ~dirty
        /\ \A id \in requested \ warned :
            /\ file # NoFile
            /\ file[id] # NoItem
            /\ file[id].Data = cachedPlayers[id]

C4_Witness ==
    /\ pc = "done"
    /\ playerCache
    /\ ret = [op |-> "Save", err |-> FALSE]
    /\ ~dirty
    /\ \E id \in requested \ warned : file # NoFile /\ file[id].Data = cachedPlayers[id]

(***************************************************************************)
(* Entity Cache: claims                                                    *)
(***************************************************************************)
\* the step is a call of Get / of Stats
IsGet == ret' # ret /\ ret'.op = "Get"
IsStats == ret' # ret /\ ret'.op = "Stats"

\* C9: Get reports found iff an item exists and now - cachedAt <= ttl; an
\* item cached at now - ttl - 1 is not found, one cached at now - ttl + 1 is.
C9_TTLBoundary ==
    [][IsGet =>
        LET item == players[ret'.id]
        IN /\ ret'.found <=> (item # NoItem /\ now - item.CachedAt <= TTL)
           /\ (item # NoItem /\ item.CachedAt = now - TTL - 1) => ~ret'.found
           /\ (item # NoItem /\ item.CachedAt = now - TTL + 1) => ret'.found
           /\ ret'.found => ret'.data = item.Data]_vars

\* Get has just reported not-found for an item that is one second too old
C9_Witness ==
    /\ ret.op = "Get"
    /\ ~ret.found
    /\ players[ret.id] # NoItem
    /\ players[ret.id].CachedAt = now - TTL - 1

\* C10: Get leaves the items, their timestamps, the dirty flag and the file
\* as they are; an expired item stays stored, and counted by Stats, until
\* CleanExpired, Set, Clear or a new cache object removes or replaces it.
C10_GetFrame ==
    /\ [][IsGet => UNCHANGED <<players, dirty, file>>]_vars
    /\ [][\A id \in Ids :
            (players[id] # NoItem /\ Expired(players[id], now) /\ players'[id] # players[id])
            => ret'.op \in {"CleanExpired", "Set", "Clear", "Open"}]_vars
    /\ [][IsStats =>
            /\ ret'.total = Cardinality({ id \in Ids : players[id] # NoItem })
            /\ ret'.expired =
                 Cardinality({ id \in Ids : players[id] # NoItem
                                             /\ now - players[id].CachedAt > TTL })]_vars

\* Get has reported not-found for an item that is still stored
C10_Witness ==
    /\ ret.op = "Get"
    /\ ~ret.found
    /\ players[ret.id] # NoItem
    /\ Expired(players[ret.id], now)
    /\ ~dirty

\* the step is a call of Set / of CleanExpired (only Tick moves the clock)
IsSet == ret'.op = "Set" /\ now' = now
IsCleanExpired == ret'.op = "CleanExpired" /\ now' = now

\* C11: Set(id, record) leaves one item for id, holding the record with
\* cachedAt = now, so that a Get right after it finds the record, also when
\* the item it replaced was expired; it sets the dirty flag and leaves the
\* items of all other ids as they were.
C11_SetUpserts ==
    [][IsSet =>
        /\ players'[ret'.id] = [Data |-> ret'.data, CachedAt |-> now]
        /\ now' - players'[ret'.id].CachedAt <= TTL
        /\ dirty'
        /\ \A other \in Ids \ {ret'.id} : players'[other] = players[other]]_vars

\* Set has replaced an expired item by another record, and the file still
\* holds the old one
C11_Witness ==
    /\ ret.op = "Set"
    /\ file # NoFile
    /\ file[ret.id] # NoItem
    /\ now - file[ret.id].CachedAt > TTL
    /\ file[ret.id].Data # ret.data
    /\ players[ret.id] = [Data |-> ret.data, CachedAt |-> now]
    /\ dirty

\* C12: CleanExpired removes the items older than the ttl and no other,
\* returns how many it removed, sets the dirty flag iff it removed one (a
\* flag that was set stays set), and Stats at the same instant then counts
\* no expired item.
C12_CleanExpired ==
    [][IsCleanExpired =>
        LET old == { id \in Ids : players[id] # NoItem /\ now - players[id].CachedAt > TTL }
        IN /\ \A id \in old : players'[id] = NoItem
           /\ \A id \in Ids \ old : players'[id] = players[id]
           /\ ret'.removed = Cardinality(old)
           /\ dirty' <=> (dirty \/ Cardinality(old) > 0)
           /\ { id \in Ids : players'[id] # NoItem
                               /\ now' - players'[id].CachedAt > TTL } = {}]_vars

\* CleanExpired has removed one item and kept a younger one
C12_Witness ==
    /\ ret.op = "CleanExpired"
    /\ ret.removed = 1
    /\ dirty
    /\ \E id \in Ids : players[id] # NoItem /\ now - players[id].CachedAt <= TTL
    /\ \E id \in Ids : players[id] = NoItem /\ file # NoFile /\ file[id] # NoItem

\* the step is the entry of PlayerCache.Save
IsSaveCall ==
    savePc = "idle" /\ (savePc' = "marshalled" \/ (savePc' = "idle" /\ ret'.op = "Save"))

\* C13: with the dirty flag clear Save returns at once and writes or replaces
\* no file; with the flag set it writes the whole map to the temp file,
\* renames the temp file over players.json, and clears the flag after that.
C13_SaveWhenDirty ==
    /\ [][IsSaveCall /\ ~dirty =>
            savePc' = "idle" /\ UNCHANGED <<file, tmpFile, players, dirty>>]_vars
    /\ [][IsSaveCall /\ dirty => savePc' = "marshalled"]_vars
    /\ [][(file' # file \/ tmpFile' # tmpFile) => dirty]_vars
    /\ [][file' # file => tmpFile = players /\ file' = players]_vars
    /\ [][dirty /\ ~dirty' => savePc = "renamed" /\ file = players /\ tmpFile = NoFile]_vars
    /\ [](savePc \in {"tmpWritten", "renamed"} => dirty)

\* the rename has put the new map in place and the flag is not cleared yet
C13_Witness ==
    /\ savePc = "renamed"
    /\ dirty
    /\ file = players
    /\ before.file # file
    /\ tmpFile = NoFile

\* C14: while a Save of either cache is under way, the file it saves to
\* holds the whole previous content or the whole new content.
C14_CrashAtomic ==
    /\ savePc \in {"marshalled", "writing", "tmpWritten", "renamed"} =>
            (file = before.file \/ file = players)
    /\ savePc = "created" =>
            \/ csvFile = before.csvFile
            \/ \E order \in Perms(DOMAIN snapshot.Key.Variables) :
                    csvFile = SavedRecords(snapshot, order)

\* the goroutines inside Set / inside Get, between lock and unlock
Writers == { t \in Threads : thread[t].op = "Set"
                              /\ thread[t].at \in {"locked", "assigning", "stored"} }
Readers == { t \in Threads : thread[t].op = "Get" /\ thread[t].at \in {"locked", "read"} }
SettersOf(id) == { t \in Threads : thread[t].op = "Set" /\ thread[t].id = id }

\* C15: at most one goroutine is inside Set and none is inside Get meanwhile;
\* when all calls have returned, every id that was Set holds the record of
\* one of its Set calls, every other id holds what it held before, and every
\* Get returned a record that was stored for its id.
C15_ConcurrentGetSet ==
    /\ Cardinality(Writers) <= 1
    /\ Writers # {} => Readers = {}
    /\ (\A t \in Threads : thread[t].at = "done") =>
        /\ \A id \in Ids :
              IF SettersOf(id) = {}
              THEN players[id] = Load(file)[id]
              ELSE /\ \E t \in SettersOf(id) :
                        players[id] = [Data |-> thread[t].data, CachedAt |-> now]
                   /\ dirty
        /\ \A t \in Threads :
              (thread[t].op = "Get" /\ thread[t].found) =>
                 \/ Load(file)[thread[t].id] # NoItem
                      /\ thread[t].data = Load(file)[thread[t].id].Data
                 \/ \E u \in SettersOf(thread[t].id) : thread[t].data = thread[u].data

\* two Set calls for two ids have returned and both records are stored
C15_Witness ==
    /\ \A t \in Threads : thread[t].at = "done"
    /\ \E t, u \in Threads :
        /\ thread[t].op = "Set" /\ thread[u].op = "Set"
        /\ thread[t].id # thread[u].id
        /\ players[thread[t].id].Data = thread[t].data
        /\ players[thread[u].id].Data = thread[u].data

(***************************************************************************)
(* GetLeaderboard, the backfill: claims                                    *)
(***************************************************************************)
\* the goroutines that hold a slot and are inside GetUser
InFlight == { id \in DOMAIN worker : worker[id] = "fetching" }

\* GetLeaderboard has returned its result after a backfill
Backfilled == fpc = "returned" /\ ret = [op |-> "GetLeaderboard", err |-> FALSE, backfill |-> TRUE]

\* the ids whose GetUser call failed / succeeded
FailedIds == { id \in DOMAIN fetched : fetched[id] = Fail }
FetchedIds == { id \in DOMAIN fetched : fetched[id] \in RemoteData }

\* C16: however many ids are to be fetched, no more GetUser calls are in
\* flight at a time than the semaphore has slots.
C16_BoundedFanout == Cardinality(InFlight) <= SemaphoreCap

\* all slots are taken and one more goroutine waits for a slot
C16_Witness ==
    /\ Cardinality(InFlight) = SemaphoreCap
    /\ \E id \in DOMAIN worker : worker[id] = "queued"

\* C17: once the leaderboard request has succeeded GetLeaderboard returns
\* without an error whichever GetUser calls fail, and the players map it
\* returns holds the cache hits and the ids whose call succeeded, and none
\* of the ids whose call failed.
C17_FanoutResilience ==
    /\ [][(fpc \in {"lookup", "collect", "saved"} /\ fpc' = "returned") =>
            ret' = [op |-> "GetLeaderboard", err |-> FALSE, backfill |-> TRUE]]_vars
    /\ [](Backfilled =>
            LET hits == UserIDs(response.Runs) \ idsToFetch
            IN /\ DOMAIN response.Players = hits \cup FetchedIds
               /\ FailedIds \cap DOMAIN response.Players = {}
               /\ idsToFetch = FetchedIds \cup FailedIds
               /\ \A id \in FetchedIds : response.Players[id] = fetched[id])

\* of three calls one failed: the map holds the two others
C17_Witness ==
    /\ Backfilled
    /\ Cardinality(idsToFetch) = 3
    /\ Cardinality(FailedIds) = 1
    /\ Cardinality(DOMAIN response.Players) = 2

\* C18: when GetLeaderboard has returned, a warning was printed for every
\* id whose GetUser call failed.
C18_FailureWarned == Backfilled => FailedIds \subseteq warned

\* C19: GetUser is called only for ids of "user" players of the response
\* that Get did not find in the Entity Cache, and once per id, in however
\* many runs the id appears.
C19_CacheFirstDedup ==
    /\ [][(fpc = "lookup" /\ fpc' = "collect") =>
            idsToFetch' =
              { id \in FanIds :
                  /\ \E i \in 1..Len(response.Runs) : \E j \in 1..Len(response.Runs[i]) :
                        response.Runs[i][j] = [Rel |-> "user", ID |-> id]
                  /\ ~(playerCache /\ players[id] # NoItem
                                    /\ now - players[id].CachedAt <= TTL) }]_vars
    /\ [][\A id \in FanIds :
            fetchCount'[id] # fetchCount[id] => id \in idsToFetch /\ fetchCount[id] = 0]_vars
    /\ [](\A id \in FanIds : fetchCount[id] <= 1)

\* p1 appears in three runs and is in the cache: it was not fetched; p2
\* (expired) and p3 (absent) were fetched once
C19_Witness ==
    /\ Backfilled
    /\ playerCache
    /\ fetchCount = [id \in FanIds |-> IF id = "p1" THEN 0 ELSE 1]
    /\ Len(response.Runs) = 4

\* C20: once ctx is cancelled every GetUser call that returns has failed,
\* GetLeaderboard still returns, and the Entity Cache holds, next to what it
\* held before, only the records of the calls that succeeded.
C20_Cancellation ==
    /\ [][\A id \in DOMAIN worker :
            (cancelled /\ worker[id] = "fetching" /\ worker'[id] = "sent")
            => fetched'[id] = Fail]_vars
    /\ [](\E c \in FanCaches : \A id \in FanIds :
            players[id] =
              IF playerCache /\ id \in FetchedIds /\ worker[id] \in {"stored", "done"}
              THEN [Data |-> fetched[id], CachedAt |-> now]
              ELSE c[id])
    /\ (cancelled ~> fpc = "returned")

\* the context was cancelled between two fetches: one record is stored, the
\* aborted call left none
C20_Witness ==
    /\ cancelled
    /\ Backfilled
    /\ playerCache
    /\ \E id \in FetchedIds : players[id] # NoItem /\ players[id].Data = fetched[id]
    /\ \E id \in FailedIds : players[id] = NoItem /\ fetchCount[id] = 1

(***************************************************************************)
(* Ranking Cache save and load: claims                                     *)
(***************************************************************************)
\* the set of video URLs of a run
URLSet(run) ==
    IF run.Videos = NoVideos THEN {} ELSE { run.Videos[i] : i \in 1..Len(run.Videos) }

\* the id of the (first) entrant of a run
EntrantID(run) == IF Len(run.Players) = 0 THEN <<>> ELSE run.Players[1].ID

\* Load has returned the snapshot that Save wrote
WasLoaded == ret.op \in {"LoadCsv", "formatTimeISO"} /\ loaded # NoFile

Abs(x) == IF x < 0 THEN -x ELSE x

\* C7: loading the key right after saving a snapshot yields as many entries as
\* were saved, each with the elapsedSeconds, place, runId, entrant id and set
\* of video URLs of the saved entry.
C7_RoundTrip ==
    WasLoaded =>
        /\ Len(loaded.Runs) = Len(snapshot.Runs)
        /\ \A i \in 1..Len(snapshot.Runs) :
            /\ loaded.Runs[i].PrimaryT = snapshot.Runs[i].PrimaryT
            /\ loaded.Runs[i].Place = snapshot.Runs[i].Place
            /\ loaded.Runs[i].ID = snapshot.Runs[i].ID
            /\ EntrantID(loaded.Runs[i]) = EntrantID(snapshot.Runs[i])
            /\ URLSet(loaded.Runs[i]) = URLSet(snapshot.Runs[i])

\* C8: the duration string Load derives for an entry decodes back to within
\* 0.01s of the entry's stored elapsedSeconds, fractions below 0.10 included.
C8_DurationDecodes ==
    decoded # Null =>
        \A i \in 1..Len(loaded.Runs) : Abs(decoded[i] - loaded.Runs[i].PrimaryT) <= 10

(***************************************************************************)
(* SearchGameByName: claims                                                *)
(***************************************************************************)
TierNames == <<"direct", "search", "catalog">>

\* C21: the direct lookup is tried first, the name search only after the
\* direct lookup failed, the catalog enumeration after the name search failed
\* (with an error or with no match); the call returns the match of the first
\* tier that matches, and "game not found" only when no tier matched
C21_TierOrdering ==
    /\ \A i \in 1..Len(tiers) : tiers[i].tier = TierNames[i]
    /\ \A i \in 2..Len(tiers) : tiers[i - 1].outcome \in {"error", "nomatch"}
    /\ spc = "done" =>
        /\ Len(tiers) < 3 => tiers[Len(tiers)].outcome = "match"
        /\ tiers[Len(tiers)].outcome = "match" =>
              searchRet.err = "" /\ searchRet.game # NoGame
        /\ searchRet.err = "game not found" =>
              Len(tiers) = 3 /\ \A i \in 1..3 : tiers[i].outcome # "match"

\* the games of the remote catalog whose abbreviation is the name, and those
\* whose display name contains it, case-insensitively
AbbreviationMatches ==
    { catalog[i] : i \in { j \in 1..Len(catalog) : EqualFold(catalog[j].Abbreviation, searchName) } }
NameMatches ==
    { catalog[i] : i \in { j \in 1..Len(catalog) :
        Contains(ToLower(catalog[j].Names.International), ToLower(searchName)) } }

\* the catalog was enumerated to its end
Enumerated == spc = "done" /\ Len(tiers) = 3 /\ tiers[3].outcome # "error"

\* C22: once the catalog is enumerated, a game anywhere in it whose
\* abbreviation equals the name case-insensitively is returned rather than a
\* game whose display name contains the name; with no such abbreviation and
\* exactly one display name containing the name, that game is returned
C22_CatalogMatch ==
    Enumerated =>
        /\ AbbreviationMatches # {} =>
              searchRet.err = "" /\ searchRet.game \in AbbreviationMatches
        /\ AbbreviationMatches = {} /\ Cardinality(NameMatches) = 1 =>
              searchRet.err = "" /\ searchRet.game \in NameMatches

\* the abbreviation match is on the second page, after a game whose display
\* name contains the name
C22_Witness ==
    /\ Enumerated
    /\ Len(catalog) = 3
    /\ catalog[1] \in NameMatches
    /\ catalog[3] \in AbbreviationMatches
    /\ searchRet.game = catalog[3]

(***************************************************************************)
(* Client.doRequest: claims                                                *)
(***************************************************************************)
\* the request got a transport error or a status outside 200..299
IsFailure(h) == h = Transport \/ h.StatusCode \notin 200..299

\* C23: no endpoint is requested more than once by one GetLeaderboard; a
\* transport error or a non-2xx status makes the call fail after that one
\* request: GetLeaderboard returns an error, GetUser hands an error to its
\* goroutine, and the id is not requested again
C23_NoRetry ==
    /\ \A ep \in Endpoints : Len(httpLog[ep]) <= 1
    /\ \A ep \in Endpoints : \A i \in 1..Len(httpLog[ep]) :
          IsFailure(httpLog[ep][i]) =>
              IF ep = "leaderboard"
              THEN fpc = "returned" /\ ret.op = "GetLeaderboard" /\ ret.err
              ELSE fetched[ep] = Fail /\ fetchCount[ep] = 1

\* GetLeaderboard has returned after the request for p2 got HTTP 500 and the
\* one for p3 a transport error
C23_Witness ==
    /\ fpc = "returned"
    /\ httpLog["p2"] = <<HttpResponse(500, ErrorBody)>>
    /\ httpLog["p3"] = <<Transport>>
    /\ fetched["p2"] = Fail /\ fetched["p3"] = Fail

(***************************************************************************)
(* NewPlayerCache: claims                                                  *)
(***************************************************************************)
IsOpen == ret'.op = "Open"

\* the items of a cache map
Total(m) == Cardinality({ id \in Ids : m[id] # NoItem })

\* C24: NewPlayerCache returns a cache whatever players.json is: an empty
\* one (total = 0, so every Get misses and the player is fetched) when the
\* file is missing, unreadable or malformed, and otherwise one that holds
\* exactly the items of the file with their CachedAt
C24_OpenNeverBlocked ==
    [][IsOpen =>
        /\ playerCache'
        /\ IF file \in {NoFile, Unreadable, Malformed}
           THEN Total(players') = 0
                /\ \A id \in Ids : ~(players'[id] # NoItem /\ ~Expired(players'[id], now'))
           ELSE \A id \in Ids : players'[id] = file[id]]_vars

\* the cache was opened over a malformed file and a Get has missed
C24_Witness ==
    /\ file = Malformed
    /\ playerCache
    /\ ret.op = "Get" /\ ~ret.found
    /\ Total(players) = 0

(***************************************************************************)
(* Ranking Cache load of damaged files: claims                             *)
(***************************************************************************)
\* s is a decimal number: digits, then possibly a dot and digits
IsNumber(s) ==
    LET n == DigitsLen(s)
        rest == SubSeq(s, n + 1, Len(s))
    IN /\ n > 0
       /\ \/ rest = <<>>
          \/ /\ rest[1] = ChDot
             /\ Len(rest) > 1
             /\ DigitsLen(Tail(rest)) = Len(rest) - 1

\* a line that is neither a prologue line nor the header
IsDataLine(line) ==
    /\ line # CsvError
    /\ ~(Len(line[1]) > 0 /\ line[1][1] = ChHash)
    /\ line[1] # StrRank

\* a data row that parses: all its fields, a numeric rank and a numeric time
WellFormed(line) ==
    /\ IsDataLine(line)
    /\ Len(line) >= 8
    /\ DigitsLen(line[1]) = Len(line[1]) /\ Len(line[1]) > 0
    /\ IsNumber(line[4])

\* the runs of the well-formed rows of a file, in order
RECURSIVE WellFormedRuns(_)
WellFormedRuns(lines) ==
    IF Len(lines) = 0 THEN <<>>
    ELSE (IF WellFormed(lines[1]) THEN <<RunOfRecord(lines[1])>> ELSE <<>>)
         \o WellFormedRuns(Tail(lines))

\* C25: whatever the file holds, Load returns without a panic; the rows that
\* do not parse are skipped and every well-formed row before and after them
\* is loaded; every loaded run has Place >= 1 and PrimaryT >= 0
C25_LoadTolerant ==
    (ret.op = "LoadCsv" /\ csvFile # NoCsv) =>
        /\ loaded # Panic
        /\ loaded.Runs = WellFormedRuns(csvFile)
        /\ \A i \in 1..Len(loaded.Runs) :
              loaded.Runs[i].Place >= 1 /\ loaded.Runs[i].PrimaryT >= 0

(***************************************************************************)
(* Ranking Cache rows and entrants: claims                                 *)
(***************************************************************************)
\* C26: Save writes one data row per run of the snapshot, with the first
\* entrant only: Load returns as many runs as were saved, whether a run has
\* one entrant, several or none, and each loaded run has exactly one entrant,
\* the first entrant of the saved run
C26_OneRowPerEntry ==
    WasLoaded =>
        /\ Len(loaded.Runs) = Len(snapshot.Runs)
        /\ \A i \in 1..Len(loaded.Runs) :
            /\ Len(loaded.Runs[i].Players) = 1
            /\ (i <= Len(snapshot.Runs) /\ Len(snapshot.Runs[i].Players) > 0) =>
                  loaded.Runs[i].Players[1] = snapshot.Runs[i].Players[1]

\* the first entrant of a saved run is a user whose player data has a
\* country code
HasCountry(run) ==
    /\ Len(run.Players) > 0
    /\ run.Players[1].Rel = StrUser
    /\ run.Players[1].ID \in DOMAIN snapshot.Players
    /\ snapshot.Players[run.Players[1].ID].Country # <<>>

\* C27: the file has the 9-column header with country_code, and after save
\* then load the Players of the loaded snapshot have, for every user that is
\* the first entrant of a run and had a country code when saved, an entry
\* with that country code
C27_CountryPersisted ==
    WasLoaded =>
        /\ \E i \in 1..Len(csvFile) :
              /\ csvFile[i][1] = StrRank
              /\ Len(csvFile[i]) = 9
              /\ csvFile[i][4] = StrCountryCode
        /\ \A i \in 1..Len(snapshot.Runs) :
              HasCountry(snapshot.Runs[i]) =>
                  LET id == snapshot.Runs[i].Players[1].ID
                  IN /\ id \in DOMAIN loaded.Players
                     /\ loaded.Players[id].Country = snapshot.Players[id].Country

(***************************************************************************)
(* Ranking Cache files: claims                                             *)
(***************************************************************************)
\* what Load returns for a file that holds nothing but one Save of data
LoadedFrom(data, k) ==
    ParseRecords(SavedRecords(data, SomeOrder(data.Key)), EmptyResult(k))

\* the step is a Save or a Delete under key k
IsSaveOrDelete(k) == lbRet'.op \in {"Save", "Delete"} /\ lbRet'.key = k

\* C30: over any sequence of Save, Delete, Clear and Load: Exists is true, and
\* Load returns a snapshot, exactly when a Save under that key string
\* succeeded after the last Delete of it or Clear; Load of a key without a
\* file returns nil and no error; after two Saves under one key string, Load
\* returns the runs of the later Save only; a Save or a Delete under one key
\* string leaves the file of every other key string as it was
C30_Lifecycle ==
    /\ [](lbRet.op = "Exists" =>
            (lbRet.result <=> lbHist[GetFileName(lbRet.key)] # NoResult))
    /\ [](lbRet.op = "Load" =>
            /\ ~lbRet.err
            /\ lbRet.result = NoFile <=> lbHist[GetFileName(lbRet.key)] = NoResult
            /\ lbRet.result # NoFile =>
                  lbRet.result.Runs =
                      LoadedFrom(lbHist[GetFileName(lbRet.key)], lbRet.key).Runs)
    /\ [][\A k \in DirKeys : IsSaveOrDelete(k) =>
            \A f \in FileNames \ {GetFileName(k)} : lbDir'[f] = lbDir[f]]_vars

\* a Load under the second key returns the one run last saved under the third
\* key, which has the same key string; the file holds the rows of that Save
\* only, and the file of the first key is there too
C30_Witness ==
    /\ lbRet.op = "Load" /\ lbRet.key = SampleKey
    /\ lbHist[GetFileName(SampleKey)] # NoResult
    /\ lbHist[GetFileName(SampleKey)].Key.CategoryID = StrBVar
    /\ Len(lbRet.result.Runs) = 1
    /\ Len(lbDir[GetFileName(SampleKey)]) = 6
    /\ \E f \in FileNames : f # GetFileName(SampleKey) /\ lbDir[f] # NoCsv

(***************************************************************************)
(* run(): claims                                                           *)
(***************************************************************************)
ForceUseCache == mode.useCache /\ ~mode.refreshCache

\* C28: in use-cache mode (--use-cache without --refresh-cache) the
\* leaderboard is never requested from the service; when the key has no
\* cache file the run ends with an error, both cache files are as they were
\* and nothing is rendered; otherwise what is rendered are exactly the runs of
\* the loaded snapshot
C28_ForceUseCache ==
    ForceUseCache =>
        /\ "leaderboard" \notin remote
        /\ (rpc = "done" /\ before.csvFile = NoCsv)
             => /\ runErr # ""
                /\ file = before.file
                /\ csvFile = before.csvFile
                /\ output = NoPage
        /\ (rpc = "done" /\ before.csvFile # NoCsv /\ runErr = "")
             => /\ loaded # NoResult
                /\ output = loaded.Runs

\* a run in use-cache mode that rendered the two runs of the cache file
C28_Witness ==
    /\ ForceUseCache
    /\ rpc = "done"
    /\ before.csvFile # NoCsv
    /\ output # NoPage
    /\ Len(output) = 2

\* C29: after a successful leaderboard fetch, every failure to save either
\* cache, to open the player cache or to fetch a player has its warning on
\* stderr, and the run goes on to render the fetched runs: it ends with an
\* error only if the page cannot be generated
C29_FailuresOnlyWarn ==
    source = "remote" =>
        /\ failures \subseteq stderr
        /\ rpc \in {"generate", "done"}
        /\ leaderboard # NoResult
        /\ rpc = "done" => \/ output = leaderboard.Runs
                           \/ runErr = "failed to generate page"

\* the runs that have a row in the file: those with at least one player
WithPlayers(runs) == SelectSeq(runs, LAMBDA r : Len(r.Players) > 0)

\* the rows of the file f are those of runs, one by one, and no others
HoldsOnly(f, runs) ==
    LET back == ParseRecords(ReadAll(f), EmptyResult(SampleKey)).Runs
    IN /\ Len(back) = Len(WithPlayers(runs))
       /\ \A i \in 1..Len(back) :
            /\ back[i].Place = WithPlayers(runs)[i].Place
            /\ back[i].Players[1].ID = WithPlayers(runs)[i].Players[1].ID

\* C31: with --refresh-cache (with or without --use-cache) the leaderboard
\* cache is never loaded and a run that got past the game lookup has requested
\* the leaderboard; after a fetch whose snapshot was saved the file holds the
\* fetched runs and nothing of the earlier snapshot; after a failed fetch the
\* run ended with an error and the file is the one from before
C31_ForceRefresh ==
    mode.refreshCache =>
        /\ loaded = NoResult
        /\ source # "cache"
        /\ (rpc \in {"generate", "done"} /\ runErr # "failed to search game")
             => "leaderboard" \in remote
        /\ (source = "remote" /\ <<"lbsave", "">> \notin failures)
             => HoldsOnly(csvFile, leaderboard.Runs)
        /\ (rpc = "done" /\ "leaderboard" \in remote /\ source = "none")
             => runErr = "failed to get leaderboard" /\ csvFile = before.csvFile /\ output = NoPage

\* both flags set, an earlier snapshot of two runs on disk, and a fetch of two
\* other runs saved over it
C31_Witness ==
    /\ mode.refreshCache /\ mode.useCache
    /\ before.csvFile # NoCsv
    /\ HoldsOnly(before.csvFile, <<RunEntry(1, <<User(StrP1)>>, 2010, NoVideos),
                                   RunEntry(2, <<Guest(StrG1)>>, 65100, <<StrU, StrVU>>)>>)
    /\ source = "remote"
    /\ <<"lbsave", "">> \notin failures
    /\ Len(leaderboard.Runs) = 2
    /\ leaderboard.Runs[1].Players[1].ID = StrP2

(***************************************************************************)
(* Load, the duration string: claims                                       *)
(***************************************************************************)
Has(s, c) == \E i \in 1..Len(s) : s[i] = c

\* the number written right before the character c of s (0 when there is
\* none), and the whole number written right after it
NumberBefore(s, c) ==
    LET i == Index(s, c) + 1
        start == CHOOSE j \in 1..i : /\ \A k \in j..(i - 1) : IsDigit(s[k])
                                     /\ (j = 1 \/ ~IsDigit(s[j - 1]))
    IN IF i = 0 THEN 0 ELSE DigitsValue(SubSeq(s, start, i - 1), 0)

NumberAfter(s, c) == DigitsValue(SubSeq(s, Index(s, c) + 2, Len(s)), 0)

\* C32: the duration string Load derives for an entry has an hours component
\* exactly when the stored seconds are at least 3600 and a fraction exactly
\* when the stored seconds have a nonzero fractional part; its minutes and its
\* whole seconds are below 60
C32_DurationComponents ==
    WasLoaded =>
        \A i \in 1..Len(loaded.Runs) :
            LET p == loaded.Runs[i].Primary
                t == loaded.Runs[i].PrimaryT
            IN /\ Has(p, ChH) <=> t >= 3600000
               /\ Has(p, ChDot) <=> t % 1000 # 0
               /\ NumberBefore(p, ChM) < 60
               /\ NumberAfter(p, ChM) < 60

(***************************************************************************)
(* GetAllGames: claims                                                     *)
(***************************************************************************)
CatalogFailed == spc = "done" /\ Len(tiers) = 3 /\ tiers[3].outcome = "error"

\* while GetAllGames loops, its offset is a whole number of pages and the
\* games it holds are the catalog up to that offset, in order; it returns the
\* whole catalog, or after a failed request no games and an error
PagesInOrder ==
    /\ spc = "catalog" =>
          /\ offset % PageSize = 0
          /\ offset <= Len(catalog)
          /\ allGames = SubSeq(catalog, 1, offset)
    /\ Enumerated => allGames = catalog
    /\ CatalogFailed => allGames = <<>> /\ searchRet.game = NoGame /\ searchRet.err = "request"

\* C33: GetAllGames requests pages of the page size at growing offsets, stops
\* at the first shorter page, returns all pages in order with no game left out
\* or repeated, returns an error and no games when a request fails, and comes
\* to an end
C33_CatalogEnumeration == []PagesInOrder /\ <>(spc = "done")

\* the catalog of three games was returned after a full page and a short one
C33_Witness == Enumerated /\ Len(catalog) = MaxCatalog /\ offset > 0 /\ allGames = catalog

(***************************************************************************)
(* GetLeaderboard, the save after the fan-out: claims                      *)
(***************************************************************************)
\* the Save at the end of the fan-out has run and returned no error
FanSaved == fpc \in {"saved", "returned"} /\ playerCache /\ ret.op \in {"Save", "GetLeaderboard"}
            /\ ~ret.err

\* C34: once the Save at the end of the fan-out has succeeded, every player
\* whose fetch succeeded was stored by Set before, so that the record is in the
\* file written and the dirty flag is clear, whatever the order in which the
\* goroutines and the collecting loop ran
C34_StoredBeforeSave ==
    (FanSaved /\ (ret.op = "GetLeaderboard" => ret.backfill)) =>
        /\ \A id \in FetchedIds :
              /\ players[id] # NoItem /\ players[id].Data = fetched[id]
              /\ file[id] = players[id]
        /\ ~dirty

\* the goroutines that have sent their result
HaveSent == { id \in DOMAIN worker : worker[id] \in {"sent", "stored", "done"} }

\* the capacity of the channel results: len(playerIDs)
ResultsCap == IF response = NoResult THEN 0 ELSE Cardinality(UserIDs(response.Runs))

\* every result sent is in the channel or was received, one per goroutine; the
\* channel never holds more than its capacity; a goroutine holds a slot of the
\* semaphore exactly from its acquire to its release; the collecting loop ends
\* after one result per id
OneResultEach ==
    /\ Len(resultsCh) + collected = Cardinality(HaveSent)
    /\ \A i, j \in 1..Len(resultsCh) : resultsCh[i].id = resultsCh[j].id => i = j
    /\ Len(resultsCh) <= ResultsCap
    /\ \A id \in FanIds : fetchCount[id] <= 1
    /\ semaphore = Cardinality({ id \in DOMAIN worker : worker[id] \in {"fetching", "sent", "stored"} })
    /\ fpc \in {"saved", "returned"} /\ idsToFetch # {} => collected = Cardinality(idsToFetch)

\* the call has returned and every goroutine has ended
FanoutOver ==
    /\ fpc = "returned"
    /\ \A id \in DOMAIN worker : worker[id] = "done"
    /\ semaphore = 0
    /\ resultsCh = <<>>

\* C35: whatever the number of ids to fetch and whichever fetches fail, every
\* goroutine gets a slot, sends one result into a channel that has room for
\* it and gives the slot back, the collecting loop receives one result per
\* id, and GetLeaderboard returns
C35_FanoutTerminates == []OneResultEach /\ <>[]FanoutOver

\* three ids for two slots, one fetch failed, all goroutines ended
C35_Witness ==
    /\ FanoutOver
    /\ Cardinality(idsToFetch) > SemaphoreCap
    /\ collected = Cardinality(idsToFetch)
    /\ FailedIds # {} /\ FetchedIds # {}

SaveFailsHere == savePc \in {"writing", "tmpWritten"} /\ savePc' = "idle"

\* C39: a Save that fails at the write of the temp file or at the rename
\* returns an error and leaves players.json as it was before the Save, the
\* items in memory as they are and the dirty flag set; a later Save that gets
\* through writes these items
C39_FailedSaveKeepsAll ==
    /\ [][SaveFailsHere =>
            /\ ret' = [op |-> "Save", err |-> TRUE]
            /\ file' = file /\ file = before.file
            /\ players' = players
            /\ dirty /\ dirty']_vars
    /\ [][(savePc \in {"marshalled", "writing", "tmpWritten", "renamed"})
            => (players' = players /\ dirty)]_vars
    /\ [](savePc = "renamed" => file = players)

\* a Save failed at the rename: the changed items are still only in memory
C39_Witness ==
    /\ savePc = "idle"
    /\ ret = [op |-> "Save", err |-> TRUE]
    /\ dirty
    /\ file = before.file
    /\ file # players
    /\ tmpFile = NoFile
    /\ \E id \in Ids : players[id] # NoItem /\ players[id].Data \in RemoteData


(***************************************************************************)
(* Clear and Delete of the LeaderboardCache: claims                        *)
(***************************************************************************)
\* the step is a call of Delete or of Clear
IsDeleteOrClear == ret' = ret /\ lbRet' # lbRet /\ lbRet'.op \in {"Delete", "Clear"}

\* the step is a call of Clear
IsClear == ret' = ret /\ lbRet' # lbRet /\ lbRet'.op = "Clear"

\* C40: Clear and Delete of the LeaderboardCache leave players.json of the
\* same directory and every item of the PlayerCache in memory as they were;
\* Clear removes every snapshot file; Clear on a missing directory returns
\* no error and changes nothing
C40_ClearKeepsEntityCache ==
    /\ [][IsDeleteOrClear =>
            (file' = file /\ players' = players /\ dirty' = dirty)]_vars
    /\ [][(IsClear /\ lbMade) => \A f \in FileNames : lbDir'[f] = NoCsv]_vars
    /\ [][(IsClear /\ ~lbMade) =>
            (~lbRet'.err /\ ~lbMade' /\ lbDir' = lbDir /\ file' = file)]_vars

\* Clear has returned, no snapshot file is left, and players.json and the
\* item set in memory since it was read are still there
C40_Witness ==
    /\ lbRet.op = "Clear"
    /\ lbMade
    /\ \A f \in FileNames : lbDir[f] = NoCsv
    /\ file # NoFile
    /\ file["p1"] # NoItem
    /\ players["p1"] # NoItem
    /\ players["p2"] # NoItem
    /\ dirty

====
